---- MODULE Spec2Model ----
(***************************************************************************)
(* A model of the fal.ai command-line scripts: the shared client library   *)
(* fal_helper.py (model catalogs, payload builders, cost estimators,       *)
(* download) and the four commands generate_image.py, generate_video.py,   *)
(* generate_video_text.py and generate_speech.py.                          *)
(*                                                                         *)
(* Conventions.                                                            *)
(*  - A Python value that may be None is a sequence of length at most one: *)
(*    None is <<>> and the value v is <<v>>.                               *)
(*  - A Python float is an exact rational [n |-> numerator, d |-> denom.]  *)
(*    in lowest terms; the rounding of binary floating point is not        *)
(*    modelled.                                                            *)
(*  - A Python dict is a function from its keys (strings) to its values.   *)
(***************************************************************************)
EXTENDS Integers, Sequences, FiniteSets, TLC

VARIABLES
    cmd,        \* which script runs: "image", "video", "t2v" or "speech"
    env,        \* the environment: FAL_API_KEY (None, "" or a key), sys.platform
    args,       \* the argv of the run, as the parser sees it
    pc,         \* position of the run in main()
    exitCode,   \* process exit status, <<>> while the process runs
    out,        \* what was printed so far, in order (stdout and stderr)
    submitted,  \* the calls of fal.subscribe: <<[model_id, payload]>>
    result,     \* what the generate_* call returned to main()
    idx,        \* generate_image.py: index i of the download loop
    fetched,    \* the HTTP GETs of download_file, in order
    files,      \* the files written by this run, path -> content
    saved,      \* downloaded_paths / saved_path
    timestamp,  \* datetime.now().strftime("%Y%m%d_%H%M%S"), "" before it is read
    opened,     \* the viewer programs started by --open, in order
    estimates,  \* the calls of the cost estimators made by the run
    call,       \* the library called directly: the last method call
    ret,        \* the library called directly: what that call returned
    reads,      \* the files opened for reading by the encoders, in order
    replies,    \* what fal.subscribe did for each submission: "return" or "raise"
    priceTable  \* the table self.PRICING names in this run

vars == <<cmd, env, args, pc, exitCode, out, submitted, result, idx, fetched,
          files, saved, timestamp, opened, estimates, call, ret, reads, replies,
          priceTable>>

-----------------------------------------------------------------------------
(* Python values *)

None == <<>>

Some(v) == <<v>>

\* The empty dict {}.
EmptyDict == [k \in {} |-> k]

\* dict.get(k, default)
DictGet(dict, k, default) == IF k \in DOMAIN dict THEN dict[k] ELSE default

\* bool(x) of an optional string: None and "" are falsy.
TruthyStr(o) == o # None /\ o[1] # ""

-----------------------------------------------------------------------------
(* Exact rationals for Python floats *)

RECURSIVE GCD(_, _)
GCD(a, b) == IF b = 0 THEN a ELSE GCD(b, a % b)

Abs(x) == IF x < 0 THEN 0 - x ELSE x

\* n/d in lowest terms, d > 0.
Rat(n, d) ==
    LET g == GCD(Abs(n), d)
    IN  [n |-> n \div g, d |-> d \div g]

\* a * b; the factors are reduced crosswise first so that the products stay small.
RMul(a, b) ==
    LET g1 == GCD(Abs(a.n), b.d)
        g2 == GCD(Abs(b.n), a.d)
    IN  Rat((a.n \div g1) * (b.n \div g2), (a.d \div g2) * (b.d \div g1))

\* float(i) of an integer i
RInt(i) == [n |-> i, d |-> 1]

\* bool(x) of an optional float: None and 0.0 are falsy.
TruthyNum(o) == o # None /\ o[1].n # 0

\* int(x) of a non-negative float: truncation.
PyInt(x) == x.n \div x.d

-----------------------------------------------------------------------------
(* fal_helper.py: the static tables of FalClient *)

IMAGE_MODELS ==
    ("flux-pro" :> "fal-ai/flux-pro/v1.1") @@
    ("flux-dev" :> "fal-ai/flux/dev") @@
    ("flux-schnell" :> "fal-ai/flux/schnell") @@
    ("flux-realism" :> "fal-ai/flux-realism") @@
    ("stable-diffusion-xl" :> "fal-ai/stable-diffusion-v3-medium") @@
    ("recraft-v3" :> "fal-ai/recraft-v3")

\* Mutant: a model is added to the catalog without a price.
VIDEO_MODELS_UnpricedEntry ==
    ("kling" :> "fal-ai/kling-video/v1.5/pro/image-to-video") @@
    ("minimax" :> "fal-ai/minimax-video/image-to-video") @@
    ("luma" :> "fal-ai/luma-dream-machine/image-to-video") @@
    ("runway-gen3" :> "fal-ai/runway-gen3/turbo/image-to-video") @@
    ("hunyuan" :> "fal-ai/hunyuan-video-v1.5/image-to-video") @@
    ("veo" :> "fal-ai/veo2/image-to-video")

VIDEO_MODELS ==
    ("kling" :> "fal-ai/kling-video/v1.5/pro/image-to-video") @@
    ("minimax" :> "fal-ai/minimax-video/image-to-video") @@
    ("luma" :> "fal-ai/luma-dream-machine/image-to-video") @@
    ("runway-gen3" :> "fal-ai/runway-gen3/turbo/image-to-video") @@
    ("hunyuan" :> "fal-ai/hunyuan-video-v1.5/image-to-video")

TEXT_TO_VIDEO_MODELS ==
    ("hunyuan" :> "fal-ai/hunyuan-video") @@
    ("hunyuan-v1.5" :> "fal-ai/hunyuan-video-v1.5/text-to-video") @@
    ("minimax" :> "fal-ai/minimax/video-01") @@
    ("ltx" :> "fal-ai/ltx-video") @@
    ("ltx-v2" :> "fal-ai/ltx-2/text-to-video") @@
    ("ltx-v2-fast" :> "fal-ai/ltx-2/text-to-video/fast") @@
    ("wan" :> "fal-ai/wan/v2.1/text-to-video")

TTS_MODELS ==
    ("f5-tts" :> "fal-ai/f5-tts") @@
    ("kokoro" :> "fal-ai/kokoro") @@
    ("playht" :> "fal-ai/playht/tts/v3") @@
    ("minimax-tts" :> "fal-ai/minimax-tts/text-to-speech")

ASPECT_RATIOS ==
    {"square", "square_hd", "portrait_4_3", "portrait_16_9",
     "landscape_4_3", "landscape_16_9", "21_9", "9_21"}

Price(n, d, unit) == [unit_price |-> Rat(n, d), unit |-> unit]

PRICING ==
    ("fal-ai/flux/schnell" :> Price(3, 1000, "megapixels")) @@
    ("fal-ai/flux/dev" :> Price(25, 1000, "megapixels")) @@
    ("fal-ai/flux-pro/v1.1" :> Price(4, 100, "megapixels")) @@
    ("fal-ai/flux-realism" :> Price(35, 1000, "megapixels")) @@
    ("fal-ai/recraft-v3" :> Price(4, 100, "images")) @@
    ("fal-ai/stable-diffusion-v3-medium" :> Price(35, 1000, "images")) @@
    ("fal-ai/kling-video/v1.5/pro/image-to-video" :> Price(1, 10, "seconds")) @@
    ("fal-ai/minimax-video/image-to-video" :> Price(5, 10, "videos")) @@
    ("fal-ai/luma-dream-machine/image-to-video" :> Price(5, 10, "videos")) @@
    ("fal-ai/runway-gen3/turbo/image-to-video" :> Price(5, 100, "seconds")) @@
    ("fal-ai/hunyuan-video-v1.5/image-to-video" :> Price(125, 100000, "compute seconds")) @@
    ("fal-ai/hunyuan-video" :> Price(75, 1000, "seconds")) @@
    ("fal-ai/hunyuan-video-v1.5/text-to-video" :> Price(75, 1000, "seconds")) @@
    ("fal-ai/minimax/video-01" :> Price(5, 10, "videos")) @@
    ("fal-ai/ltx-video" :> Price(4, 100, "seconds")) @@
    ("fal-ai/ltx-2/text-to-video" :> Price(4, 100, "seconds")) @@
    ("fal-ai/ltx-2/text-to-video/fast" :> Price(4, 100, "seconds")) @@
    ("fal-ai/wan/v2.1/text-to-video" :> Price(5, 100, "seconds")) @@
    ("fal-ai/f5-tts" :> Price(5, 100, "1000 characters")) @@
    ("fal-ai/kokoro" :> Price(2, 100, "1000 characters")) @@
    ("fal-ai/playht/tts/v3" :> Price(3, 100, "minutes")) @@
    ("fal-ai/minimax-tts/text-to-speech" :> Price(1, 10, "1000 characters"))

-----------------------------------------------------------------------------
(* fal_helper.py: shortname resolution and the payload builders *)

ImageModelId(model) == DictGet(IMAGE_MODELS, model, model)

\* Mutant: image-to-video resolves in the text-to-video catalog.
VideoModelId_OtherCatalog(model) == DictGet(TEXT_TO_VIDEO_MODELS, model, model)

VideoModelId(model) == DictGet(VIDEO_MODELS, model, model)

TextToVideoModelId(model) == DictGet(TEXT_TO_VIDEO_MODELS, model, model)

TtsModelId(model) == DictGet(TTS_MODELS, model, model)

\* min(max(num_images, 1), 4)
Max(a, b) == IF a >= b THEN a ELSE b

Min(a, b) == IF a <= b THEN a ELSE b

\* Mutant: the upper limit is forgotten.
ClampNumImages_NoUpperLimit(num_images) == Max(num_images, 1)

ClampNumImages(num_images) == Min(Max(num_images, 1), 4)

\* generate_image: the payload handed to _submit_request.
ImagePayload(prompt, aspect_ratio, num_images, seed, enable_safety_checker, negative_prompt) ==
    [prompt |-> prompt,
     num_images |-> ClampNumImages(num_images),
     enable_safety_checker |-> enable_safety_checker]
    @@ (IF aspect_ratio # "" /\ aspect_ratio # "square"
        THEN "image_size" :> aspect_ratio ELSE EmptyDict)
    @@ (IF seed # None THEN "seed" :> seed[1] ELSE EmptyDict)
    @@ (IF TruthyStr(negative_prompt)
        THEN "negative_prompt" :> negative_prompt[1] ELSE EmptyDict)

\* generate_video: image_data is the data URL _encode_image built.
VideoPayload(image_data, prompt, duration, aspect_ratio) ==
    [image_url |-> image_data]
    @@ (IF TruthyStr(prompt) THEN "prompt" :> prompt[1] ELSE EmptyDict)
    @@ (IF duration.n # 0
        THEN "duration" :> ToString(PyInt(duration)) ELSE EmptyDict)
    @@ (IF TruthyStr(aspect_ratio)
        THEN "aspect_ratio" :> aspect_ratio[1] ELSE EmptyDict)

\* Mutant: aspect ratio and resolution are left out at their defaults.
TextToVideoPayload_OmitDefaults(prompt, aspect_ratio, resolution, duration, seed) ==
    [prompt |-> prompt]
    @@ (IF aspect_ratio # "" /\ aspect_ratio # "16:9"
        THEN "aspect_ratio" :> aspect_ratio ELSE EmptyDict)
    @@ (IF resolution # "" /\ resolution # "720p"
        THEN "resolution" :> resolution ELSE EmptyDict)
    @@ (IF duration # None THEN "duration" :> duration[1] ELSE EmptyDict)
    @@ (IF seed # None THEN "seed" :> seed[1] ELSE EmptyDict)

\* generate_video_from_text
TextToVideoPayload(prompt, aspect_ratio, resolution, duration, seed) ==
    [prompt |-> prompt]
    @@ (IF aspect_ratio # "" THEN "aspect_ratio" :> aspect_ratio ELSE EmptyDict)
    @@ (IF resolution # "" THEN "resolution" :> resolution ELSE EmptyDict)
    @@ (IF duration # None THEN "duration" :> duration[1] ELSE EmptyDict)
    @@ (IF seed # None THEN "seed" :> seed[1] ELSE EmptyDict)

\* text_to_speech: audio_data is the data URL _encode_audio built, None when
\* reference_audio is falsy.
SpeechPayload(text, audio_data, voice, speed) ==
    [gen_text |-> text]
    @@ (IF audio_data # None THEN "ref_audio_url" :> audio_data[1] ELSE EmptyDict)
    @@ (IF TruthyStr(voice) THEN "voice" :> voice[1] ELSE EmptyDict)
    @@ (IF speed # RInt(1) THEN "speed" :> speed ELSE EmptyDict)

-----------------------------------------------------------------------------
(* Strings and paths *)

\* Python's "t in s" for strings.
Contains(s, t) ==
    \E i \in 1..(Len(s) - Len(t) + 1) : SubSeq(s, i, i + Len(t) - 1) = t

StartsWith(s, t) == Len(s) >= Len(t) /\ SubSeq(s, 1, Len(t)) = t

\* The largest index of the character c in s, 0 when there is none.
LastIndexOf(s, c) ==
    LET I == {i \in 1..Len(s) : SubSeq(s, i, i) = c}
    IN  IF I = {} THEN 0 ELSE CHOOSE i \in I : \A j \in I : j <= i

UpperCase == "ABCDEFGHIJKLMNOPQRSTUVWXYZ"

LowerCase == "abcdefghijklmnopqrstuvwxyz"

LowerChar(c) ==
    LET I == {i \in 1..Len(UpperCase) : SubSeq(UpperCase, i, i) = c}
    IN  IF I = {} THEN c ELSE LET i == CHOOSE i \in I : TRUE
                              IN  SubSeq(LowerCase, i, i)

\* str.lower()
RECURSIVE Lower(_)
Lower(s) ==
    IF s = "" THEN ""
    ELSE LowerChar(SubSeq(s, 1, 1)) \o Lower(SubSeq(s, 2, Len(s)))

\* Path.name: the last component of a path.
PathName(path) == SubSeq(path, LastIndexOf(path, "/") + 1, Len(path))

\* Path.suffix: the last dot of the name and what follows it, unless the dot is
\* the first or the last character of the name.
PathSuffix(path) ==
    LET name == PathName(path)
        i == LastIndexOf(name, ".")
    IN  IF 1 < i /\ i < Len(name) THEN SubSeq(name, i, Len(name)) ELSE ""

\* The working directory and the home directory of the process.
Cwd == "/work"

Home == "/home/u"

\* A path without its trailing slash.
StripSlash(p) ==
    IF Len(p) > 1 /\ SubSeq(p, Len(p), Len(p)) = "/" THEN SubSeq(p, 1, Len(p) - 1) ELSE p

\* The symbolic links on disk: link -> the file it points to.
Symlinks ==
    ("/work/link.jpg" :> "/work/cat.png") @@
    ("/work/ref.mp3" :> "/work/voice.wav")

\* The absolute form of a path: "~" and "~/x" are expanded, "." and a leading
\* "./" are dropped, a relative path is joined to the working directory (no ".."
\* in the model).
AbsolutePath(p) ==
    LET q == StripSlash(p)
        r == IF StartsWith(q, "./") THEN SubSeq(q, 3, Len(q)) ELSE q
    IN  IF r = "~" THEN Home
        ELSE IF StartsWith(r, "~/") THEN Home \o SubSeq(r, 2, Len(r))
        ELSE IF StartsWith(r, "/") THEN r
        ELSE IF r = "." \/ r = "" THEN Cwd
        ELSE Cwd \o "/" \o r

\* Path(p).expanduser().resolve(): the absolute form, a symbolic link replaced
\* by the file it points to.
ResolvePath(p) == DictGet(Symlinks, AbsolutePath(p), AbsolutePath(p))

\* The files on disk before the run: path -> content.
InitialDisk ==
    ("/work/cat.png" :> "PNGDATA") @@
    ("/work/photo.JPG" :> "JPGDATA") @@
    ("/work/scan.jpeg" :> "JPEGDATA") @@
    ("/work/anim.gif" :> "GIFDATA") @@
    ("/work/pic.webp" :> "WEBPDATA") @@
    ("/work/raw.bmp" :> "BMPDATA") @@
    ("/work/clip" :> "RAWDATA") @@
    ("/work/.png" :> "DOTDATA") @@
    ("/work/voice.wav" :> "WAVDATA") @@
    ("/work/.wav" :> "DOTWAVDATA") @@
    ("/work/song.mp3" :> "MP3DATA") @@
    ("/work/talk.OGG" :> "OGGDATA") @@
    ("/work/memo.m4a" :> "M4ADATA") @@
    ("/work/take.flac" :> "FLACDATA") @@
    ("/work/note.aac" :> "AACDATA") @@
    ("/work/old.mp4" :> "OLDDATA")

\* base64.b64encode(content).decode("utf-8"), kept symbolic.
B64(content) == "b64<" \o content \o ">"

ImageMimeTypes ==
    (".jpg" :> "image/jpeg") @@ (".jpeg" :> "image/jpeg") @@
    (".png" :> "image/png") @@ (".webp" :> "image/webp") @@
    (".gif" :> "image/gif")

AudioMimeTypes ==
    (".mp3" :> "audio/mpeg") @@ (".wav" :> "audio/wav") @@
    (".ogg" :> "audio/ogg") @@ (".m4a" :> "audio/mp4") @@
    (".flac" :> "audio/flac")

\* The outcome of a call: a returned value or a raised exception.
Return(v) == [kind |-> "return", value |-> v]

Raise(exc, text) == [kind |-> "raise", exc |-> exc, text |-> text]

\* Mutant: the suffix is looked up as written, not in lower case.
EncodeImage_CaseSensitive(fs, image_path) ==
    LET path == ResolvePath(image_path)
    IN  IF path \notin DOMAIN fs
        THEN Raise("FileNotFoundError", "Image not found: " \o image_path)
        ELSE Return("data:" \o DictGet(ImageMimeTypes, PathSuffix(path), "image/png")
                    \o ";base64," \o B64(fs[path]))

\* _encode_image on the disk fs.
EncodeImage(fs, image_path) ==
    LET path == ResolvePath(image_path)
    IN  IF path \notin DOMAIN fs
        THEN Raise("FileNotFoundError", "Image not found: " \o image_path)
        ELSE Return("data:" \o DictGet(ImageMimeTypes, Lower(PathSuffix(path)), "image/png")
                    \o ";base64," \o B64(fs[path]))

\* Mutant: a missing file is encoded as an empty one.
EncodeAudio_MissingIsEmpty(fs, audio_path) ==
    LET path == ResolvePath(audio_path)
    IN  Return("data:" \o DictGet(AudioMimeTypes, Lower(PathSuffix(path)), "audio/mpeg")
               \o ";base64," \o B64(DictGet(fs, path, "")))

\* _encode_audio on the disk fs.
EncodeAudio(fs, audio_path) ==
    LET path == ResolvePath(audio_path)
    IN  IF path \notin DOMAIN fs
        THEN Raise("FileNotFoundError", "Audio not found: " \o audio_path)
        ELSE Return("data:" \o DictGet(AudioMimeTypes, Lower(PathSuffix(path)), "audio/mpeg")
                    \o ";base64," \o B64(fs[path]))

-----------------------------------------------------------------------------
(* fal_helper.py: the cost estimators *)

\* The dict an estimator returns; the "breakdown" text is for display only and
\* is left out.
Estimate(cost, unit) == [cost |-> cost, unit |-> unit]

\* Mutant: the megapixel branch forgets the number of images.
EstimateImageCost_IgnoresCount(model_id, num_images, width, height) ==
    IF model_id \notin DOMAIN priceTable THEN None
    ELSE LET unit_price == priceTable[model_id].unit_price
             unit == priceTable[model_id].unit
         IN  IF unit = "megapixels"
             THEN Some(Estimate(RMul(unit_price, Rat(width * height, 1000000)), unit))
             ELSE Some(Estimate(RMul(unit_price, RInt(num_images)), unit))

\* estimate_image_cost
EstimateImageCost(model_id, num_images, width, height) ==
    IF model_id \notin DOMAIN priceTable THEN None
    ELSE LET unit_price == priceTable[model_id].unit_price
             unit == priceTable[model_id].unit
         IN  IF unit = "megapixels"
             THEN LET megapixels == Rat(width * height, 1000000)
                  IN  Some(Estimate(RMul(RMul(unit_price, megapixels), RInt(num_images)), unit))
             ELSE Some(Estimate(RMul(unit_price, RInt(num_images)), unit))

\* Mutant: "compute seconds" is not recognised and priced per video.
EstimateVideoCost_SecondsOnly(model_id, duration_seconds) ==
    IF model_id \notin DOMAIN priceTable THEN None
    ELSE LET unit_price == priceTable[model_id].unit_price
             unit == priceTable[model_id].unit
         IN  IF unit = "seconds"
             THEN Some(Estimate(RMul(unit_price, duration_seconds), unit))
             ELSE Some(Estimate(unit_price, unit))

\* estimate_video_cost
EstimateVideoCost(model_id, duration_seconds) ==
    IF model_id \notin DOMAIN priceTable THEN None
    ELSE LET unit_price == priceTable[model_id].unit_price
             unit == priceTable[model_id].unit
         IN  IF unit = "seconds" \/ unit = "compute seconds"
             THEN Some(Estimate(RMul(unit_price, duration_seconds), unit))
             ELSE Some(Estimate(unit_price, unit))

\* Mutant: an unknown model falls back to a default price instead of None.
EstimateTtsCost_DefaultPrice(model_id, text) ==
    LET price_info == DictGet(priceTable, model_id, Price(5, 100, "1000 characters"))
    IN  Some(Estimate(RMul(price_info.unit_price, Rat(Len(text), 1000)), price_info.unit))

\* estimate_tts_cost
EstimateTtsCost(model_id, text) ==
    IF model_id \notin DOMAIN priceTable THEN None
    ELSE LET unit_price == priceTable[model_id].unit_price
             unit == priceTable[model_id].unit
             char_count == Len(text)
         IN  IF Contains(unit, "1000 characters")
             THEN Some(Estimate(RMul(unit_price, Rat(char_count, 1000)), unit))
             ELSE IF Contains(unit, "minutes")
             THEN LET est_minutes == Rat(char_count, 750)
                  IN  Some(Estimate(RMul(unit_price, est_minutes), unit))
             ELSE Some(Estimate(unit_price, unit))

-----------------------------------------------------------------------------
(* The remote service and the HTTP transport *)

\* A Python value that main() tests with isinstance(..., dict).
Dict(f) == [dict |-> f]

Str(x) == [str |-> x]

\* isinstance(v, dict)
IsDict(v) == "dict" \in DOMAIN v

\* The most images one result holds in the model.
MaxImages == 2

ImageUrl(i) == "https://fal.media/files/img" \o ToString(i) \o ".png"

VideoUrl == "https://fal.media/files/out.mp4"

AudioUrl == "https://fal.media/files/speech.mp3"

\* The lists a result can hold under "images": each entry has a url or has none.
ImageLists ==
    UNION {{[i \in 1..n |-> IF has[i] THEN [url |-> ImageUrl(i)] ELSE EmptyDict] :
            has \in [1..n -> BOOLEAN]} : n \in 0..MaxImages}

\* fal.subscribe raised (transport or service-reported error).
ServiceError == Raise("FalClientError", "remote job failed")

\* What fal.subscribe does for an image model.
ImageService == {ServiceError, Return(EmptyDict)} \cup {Return([images |-> l]) : l \in ImageLists}

\* What fal.subscribe does for a video model.
VideoService ==
    {ServiceError,
     Return([video |-> Dict([url |-> VideoUrl])]),
     Return([video |-> Dict(EmptyDict)]),
     Return([video |-> Str(VideoUrl)]),
     Return([url |-> VideoUrl]),
     Return(EmptyDict)}

\* What fal.subscribe does for a speech model.
SpeechService ==
    {ServiceError,
     Return([audio |-> Dict([url |-> AudioUrl])]),
     Return([audio |-> Dict([audio_url |-> AudioUrl])]),
     Return([audio |-> Dict([audio |-> Dict([url |-> AudioUrl])])]),
     Return([audio |-> Dict([audio |-> Str(AudioUrl)])]),
     Return([audio |-> Dict(EmptyDict)]),
     Return([audio |-> Str(AudioUrl)]),
     Return([audio_url |-> AudioUrl]),
     Return(EmptyDict)}

\* What the GET of download_file does: a success status, a non-success status
\* (raise_for_status raises) or a transport error (get raises).
HttpOutcomes == {"ok", "status", "transport"}

\* response.content of a successful GET.
Body(url) == "body<" \o url \o ">"

\* str(e) of the exception a failed GET raises: httpx names the URL in the
\* message of a status error, and not in the message of a connection error.
HttpErrorText(url, http) ==
    IF http = "status" THEN "Client error '404 Not Found' for url '" \o url \o "'"
    ELSE "[Errno 111] Connection refused"

\* Mutant: the output file is opened for writing before the GET.
DownloadFile_OpensFirst(fs, url, output_path, http) ==
    LET path == ResolvePath(output_path)
    IN  IF http = "ok"
        THEN [fs |-> (path :> Body(url)) @@ fs, outcome |-> Return(path)]
        ELSE [fs |-> (path :> "") @@ fs,
              outcome |-> Raise(IF http = "status" THEN "HTTPStatusError" ELSE "ConnectError",
                                HttpErrorText(url, http))]

\* download_file on the disk fs: the disk afterwards and the outcome.
DownloadFile(fs, url, output_path, http) ==
    LET path == ResolvePath(output_path)
    IN  IF http = "ok"
        THEN [fs |-> (path :> Body(url)) @@ fs, outcome |-> Return(path)]
        ELSE [fs |-> fs,
              outcome |-> Raise(IF http = "status" THEN "HTTPStatusError" ELSE "ConnectError",
                                HttpErrorText(url, http))]

Submission(model_id, payload) == [model_id |-> model_id, payload |-> payload]

\* generate_image with arguments a, the service answering svc: the submissions
\* made and the outcome of the call.
GenerateImage(a, svc) ==
    LET model_id == ImageModelId(a.model)
        payload == ImagePayload(a.prompt, a.aspect_ratio, a.num_images, a.seed, a.enable_safety_checker, a.negative_prompt)
    IN  [submit |-> <<Submission(model_id, payload)>>,
         reply |-> <<svc.kind>>,
         reads |-> <<>>,
         outcome |-> IF svc.kind = "raise" THEN svc
                     ELSE Return(DictGet(svc.value, "images", <<>>))]

\* generate_video
GenerateVideo(fs, a, svc) ==
    LET model_id == VideoModelId(a.model)
        image_data == EncodeImage(fs, a.image_path)
    IN  IF image_data.kind = "raise"
        THEN [submit |-> <<>>, reply |-> <<>>, reads |-> <<>>, outcome |-> image_data]
        ELSE [submit |-> <<Submission(model_id, VideoPayload(image_data.value, a.prompt, a.duration, a.aspect_ratio))>>,
              reply |-> <<svc.kind>>,
              reads |-> <<ResolvePath(a.image_path)>>,
              outcome |-> IF svc.kind = "raise" THEN svc
                          ELSE Return(DictGet(svc.value, "video", Dict(svc.value)))]

\* Mutant: a failed submission is tried a second time.
GenerateVideoFromText_RetryOnce(a, svc) ==
    LET model_id == TextToVideoModelId(a.model)
        payload == TextToVideoPayload(a.prompt, a.aspect_ratio, a.resolution, a.duration, a.seed)
        s == Submission(model_id, payload)
    IN  [submit |-> IF svc.kind = "raise" THEN <<s, s>> ELSE <<s>>,
         reply |-> IF svc.kind = "raise" THEN <<"raise", "raise">> ELSE <<"return">>,
         reads |-> <<>>,
         outcome |-> IF svc.kind = "raise" THEN svc
                     ELSE Return(DictGet(svc.value, "video", Dict(svc.value)))]

\* generate_video_from_text
GenerateVideoFromText(a, svc) ==
    LET model_id == TextToVideoModelId(a.model)
        payload == TextToVideoPayload(a.prompt, a.aspect_ratio, a.resolution, a.duration, a.seed)
    IN  [submit |-> <<Submission(model_id, payload)>>,
         reply |-> <<svc.kind>>,
         reads |-> <<>>,
         outcome |-> IF svc.kind = "raise" THEN svc
                     ELSE Return(DictGet(svc.value, "video", Dict(svc.value)))]

\* text_to_speech
TextToSpeech(fs, a, svc) ==
    LET model_id == TtsModelId(a.model)
        audio_data == IF TruthyStr(a.reference_audio)
                      THEN EncodeAudio(fs, a.reference_audio[1])
                      ELSE Return("")
    IN  IF audio_data.kind = "raise"
        THEN [submit |-> <<>>, reply |-> <<>>, reads |-> <<>>, outcome |-> audio_data]
        ELSE [submit |-> <<Submission(model_id,
                  SpeechPayload(a.text,
                                IF TruthyStr(a.reference_audio) THEN Some(audio_data.value) ELSE None,
                                a.voice, a.speed))>>,
              reply |-> <<svc.kind>>,
              reads |-> IF TruthyStr(a.reference_audio)
                        THEN <<ResolvePath(a.reference_audio[1])>> ELSE <<>>,
              outcome |-> IF svc.kind = "raise" THEN svc
                          ELSE Return(DictGet(svc.value, "audio", Dict(svc.value)))]

-----------------------------------------------------------------------------
(* The client library called directly: one FalClient, one method call.     *)

\* num_images ranges over (1 - NumSpread)..(4 + NumSpread).
NumSpread == 2

\* Image counts, factors and text lengths of the estimator calls.
MaxCount == 4

MaxK == 3

MaxChars == 4

\* The paths given as source image and as reference audio: files of every
\* suffix of the two tables (in lower and in upper case), of a suffix of neither
\* table, without a suffix, symbolic links, and paths of no file.
ImagePaths ==
    {"cat.png", "photo.JPG", "scan.jpeg", "anim.gif", "pic.webp", "raw.bmp", "clip",
     ".png", "voice.wav", "link.jpg", "missing.png"}

AudioPaths ==
    {"voice.wav", "song.mp3", "talk.OGG", "memo.m4a", "take.flac", "note.aac", "clip",
     ".wav", "cat.png", "ref.mp3", "missing.wav"}

\* Model names: catalog shortnames (some in two catalogs), and names that are in
\* no catalog.
ModelNames ==
    {"flux-schnell", "recraft-v3", "kling", "minimax", "hunyuan", "ltx-v2-fast",
     "f5-tts", "playht", "fal-ai/flux/dev", "acme/custom-model"}

Seeds == {None, Some(0), Some(42)}

OptStrings(S) == {None, Some("")} \cup {Some(x) : x \in S}

Durations == {RInt(0), Rat(1, 2), RInt(5), RInt(10)}

RECURSIVE Text(_)
Text(n) == IF n = 0 THEN "" ELSE "a" \o Text(n - 1)

\* Model identifiers given to the estimators: every priced identifier, and
\* identifiers without a PRICING entry (a shortname is one).
EstimatorIds ==
    DOMAIN PRICING \cup {"flux-schnell", "acme/custom-model", ""}
    \cup {IMAGE_MODELS[m] : m \in DOMAIN IMAGE_MODELS}
    \cup {VIDEO_MODELS[m] : m \in DOMAIN VIDEO_MODELS}
    \cup {TEXT_TO_VIDEO_MODELS[m] : m \in DOMAIN TEXT_TO_VIDEO_MODELS}
    \cup {TTS_MODELS[m] : m \in DOMAIN TTS_MODELS}

LibInit ==
    /\ cmd = "lib"
    /\ env = [FAL_API_KEY |-> Some("key"), platform |-> "linux"]
    /\ args = EmptyDict
    /\ pc = "ready"
    /\ exitCode = None
    /\ out = <<>>
    /\ submitted = <<>>
    /\ result = None
    /\ idx = 0
    /\ fetched = <<>>
    /\ files = InitialDisk
    /\ saved = <<>>
    /\ timestamp = ""
    /\ opened = <<>>
    /\ estimates = <<>>
    /\ call = None
    /\ ret = None
    /\ reads = <<>>
    /\ replies = <<>>
    /\ priceTable = PRICING

\* The frame of a library call: it returns, and touches nothing of a command run.
Called(fn, a, outcome) ==
    /\ pc = "ready"
    /\ pc' = "returned"
    /\ call' = Some([fn |-> fn, a |-> a])
    /\ ret' = outcome
    /\ UNCHANGED <<priceTable, cmd, env, args, exitCode, out, result, idx, saved, timestamp,
                   opened, estimates>>

CallGenerateImage ==
    \E model \in {"flux-schnell", "recraft-v3", "minimax", "acme/custom-model"},
       aspect_ratio \in {"", "square", "landscape_16_9"},
       num_images \in (1 - NumSpread)..(4 + NumSpread),
       seed \in Seeds,
       enable_safety_checker \in BOOLEAN,
       negative_prompt \in OptStrings({"blurry"}),
       svc \in {ServiceError, Return(EmptyDict), Return([images |-> <<[url |-> ImageUrl(1)]>>])} :
        LET a == [prompt |-> "A cat", model |-> model, aspect_ratio |-> aspect_ratio,
                  num_images |-> num_images, seed |-> seed,
                  enable_safety_checker |-> enable_safety_checker,
                  negative_prompt |-> negative_prompt]
            r == GenerateImage(a, svc)
        IN  /\ Called("generate_image", a, r.outcome)
            /\ submitted' = submitted \o r.submit
            /\ replies' = replies \o r.reply
            /\ reads' = reads \o r.reads
            /\ UNCHANGED <<files, fetched>>

CallGenerateVideo ==
    \E model \in {"kling", "minimax", "ltx-v2-fast", "acme/custom-model"},
       image_path \in ImagePaths,
       prompt \in OptStrings({"zoom in"}),
       duration \in Durations,
       aspect_ratio \in OptStrings({"16:9"}),
       svc \in {ServiceError, Return([video |-> Dict([url |-> VideoUrl])])} :
        LET a == [image_path |-> image_path, prompt |-> prompt, model |-> model,
                  duration |-> duration, aspect_ratio |-> aspect_ratio]
            r == GenerateVideo(files, a, svc)
        IN  /\ Called("generate_video", a, r.outcome)
            /\ submitted' = submitted \o r.submit
            /\ replies' = replies \o r.reply
            /\ reads' = reads \o r.reads
            /\ UNCHANGED <<files, fetched>>

CallGenerateVideoFromText ==
    \E model \in {"ltx-v2-fast", "minimax", "kling", "acme/custom-model"},
       aspect_ratio \in {"", "16:9", "9:16"},
       resolution \in {"", "720p", "1080p"},
       duration \in {None} \cup {Some(d) : d \in Durations},
       seed \in Seeds,
       svc \in {ServiceError, Return([video |-> Dict([url |-> VideoUrl])])} :
        LET a == [prompt |-> "a cat on the beach", model |-> model,
                  aspect_ratio |-> aspect_ratio, resolution |-> resolution,
                  duration |-> duration, seed |-> seed]
            r == GenerateVideoFromText(a, svc)
        IN  /\ Called("generate_video_from_text", a, r.outcome)
            /\ submitted' = submitted \o r.submit
            /\ replies' = replies \o r.reply
            /\ reads' = reads \o r.reads
            /\ UNCHANGED <<files, fetched>>

CallTextToSpeech ==
    \E model \in {"f5-tts", "playht", "minimax", "acme/custom-model"},
       text \in {"", "Hello"},
       voice \in OptStrings({"af_heart"}),
       reference_audio \in OptStrings(AudioPaths),
       speed \in {Rat(1, 2), RInt(1), RInt(2)},
       svc \in {ServiceError, Return([audio |-> Dict([url |-> AudioUrl])])} :
        LET a == [text |-> text, model |-> model, voice |-> voice,
                  reference_audio |-> reference_audio, speed |-> speed]
            r == TextToSpeech(files, a, svc)
        IN  /\ Called("text_to_speech", a, r.outcome)
            /\ submitted' = submitted \o r.submit
            /\ replies' = replies \o r.reply
            /\ reads' = reads \o r.reads
            /\ UNCHANGED <<files, fetched>>

CallDownloadFile ==
    \E url \in {VideoUrl, AudioUrl},
       output_path \in {"out/new.mp4", "old.mp4", "~/clips/new.mp4", "/tmp/x.mp4"},
       http \in HttpOutcomes :
        LET a == [url |-> url, output_path |-> output_path]
            r == DownloadFile(files, url, output_path, http)
        IN  /\ Called("download_file", a, r.outcome)
            /\ files' = r.fs
            /\ fetched' = Append(fetched, [url |-> url, path |-> ResolvePath(output_path), http |-> http])
            /\ UNCHANGED <<submitted, reads, replies>>

CallEstimateImageCost ==
    \E model_id \in EstimatorIds,
       num_images \in 0..MaxCount,
       width \in {512, 1024, 1536},
       height \in {768, 1024, 1536} :
        LET a == [model_id |-> model_id, num_images |-> num_images,
                  width |-> width, height |-> height]
        IN  /\ Called("estimate_image_cost", a,
                      Return(EstimateImageCost(model_id, num_images, width, height)))
            /\ UNCHANGED <<submitted, files, fetched, reads, replies>>

CallEstimateVideoCost ==
    \E model_id \in EstimatorIds, duration_seconds \in Durations :
        LET a == [model_id |-> model_id, duration_seconds |-> duration_seconds]
        IN  /\ Called("estimate_video_cost", a,
                      Return(EstimateVideoCost(model_id, duration_seconds)))
            /\ UNCHANGED <<submitted, files, fetched, reads, replies>>

CallEstimateTtsCost ==
    \E model_id \in EstimatorIds, n \in 0..MaxChars :
        LET a == [model_id |-> model_id, text |-> Text(n)]
        IN  /\ Called("estimate_tts_cost", a,
                      Return(EstimateTtsCost(model_id, Text(n))))
            /\ UNCHANGED <<submitted, files, fetched, reads, replies>>

LibNext ==
    \/ CallGenerateImage
    \/ CallGenerateVideo
    \/ CallGenerateVideoFromText
    \/ CallTextToSpeech
    \/ CallDownloadFile
    \/ CallEstimateImageCost
    \/ CallEstimateVideoCost
    \/ CallEstimateTtsCost

SpecLib == LibInit /\ [][LibNext]_vars

-----------------------------------------------------------------------------
(* The commands: what every main() shares *)

\* One printed message: the stream, the fixed text, the interpolated value.
Emit(fd, msg, arg) == [fd |-> fd, msg |-> msg, arg |-> arg]

\* The process ends with the status code.
Exit(code) == pc' = "exit" /\ exitCode' = Some(code)

\* An exception no handler catches: the interpreter prints the traceback and
\* the process ends with status 1.
Uncaught(exc) ==
    /\ out' = Append(out, Emit("stderr", "Traceback (most recent call last)", exc))
    /\ Exit(1)

Timestamps == {"20260104_093000", "20261231_235959"}

Platforms == {"linux", "darwin", "win32", "freebsd"}

\* The program subprocess.run starts on a platform, "" where the script starts none.
ViewerProgram(platform) ==
    CASE platform = "darwin" -> "open"
      [] platform = "linux" -> "xdg-open"
      [] platform = "win32" -> "start"
      [] OTHER -> ""

\* How a viewer run ends: exit status 0, a non-zero exit status
\* (CalledProcessError), or the program cannot be started (FileNotFoundError;
\* not with shell=True, where the shell reports it by its exit status).
ViewerOutcomes(platform) ==
    IF platform = "win32" THEN {"ok", "failed"} ELSE {"ok", "failed", "notfound"}

\* The body of the try statement that opens one file: the viewer runs made and
\* the exception that leaves the try statement, if any. CalledProcessError is
\* caught and ignored.
OpenFile(platform, path, v) ==
    IF ViewerProgram(platform) = "" THEN [ran |-> <<>>, raised |-> None]
    ELSE [ran |-> <<[program |-> ViewerProgram(platform), path |-> path, outcome |-> v]>>,
          raised |-> IF v = "notfound" THEN Some("FileNotFoundError") ELSE None]

\* The lines of a model listing, in the order of the catalog.
ListingLines(order, catalog) ==
    [i \in 1..Len(order) |-> Emit("stdout", order[i], catalog[order[i]])]

ImageModelOrder ==
    <<"flux-pro", "flux-dev", "flux-schnell", "flux-realism", "stable-diffusion-xl",
      "recraft-v3">>

VideoModelOrder == <<"kling", "minimax", "luma", "runway-gen3", "hunyuan">>

TextToVideoModelOrder ==
    <<"hunyuan", "hunyuan-v1.5", "minimax", "ltx", "ltx-v2", "ltx-v2-fast", "wan">>

TtsModelOrder == <<"f5-tts", "kokoro", "playht", "minimax-tts">>

\* The flags every parser has.
Flags == [help : BOOLEAN, list_models : BOOLEAN, open : BOOLEAN]

WithFlags(S) == {f @@ a : f \in Flags, a \in S}

\* generate_image.py: command lines (the usage examples and others); prompt is
\* None when the positional argument is missing.
ImageArgs ==
    WithFlags({
        [prompt |-> Some("A cat"), model |-> "flux-schnell", aspect |-> "square",
         num |-> 1, seed |-> None, negative |-> None, output |-> ".", no_safety |-> FALSE],
        [prompt |-> Some("A cyberpunk city"), model |-> "flux-pro", aspect |-> "landscape_16_9",
         num |-> 1, seed |-> None, negative |-> None, output |-> ".", no_safety |-> FALSE],
        [prompt |-> Some("A cute robot"), model |-> "flux-schnell", aspect |-> "square",
         num |-> 4, seed |-> None, negative |-> None, output |-> "./robots/", no_safety |-> FALSE],
        [prompt |-> Some("A cat"), model |-> "acme/custom-model", aspect |-> "square_hd",
         num |-> 0, seed |-> Some(0), negative |-> Some("blurry"), output |-> "~/img",
         no_safety |-> TRUE],
        [prompt |-> Some("A cat"), model |-> "flux-schnell", aspect |-> "wide",
         num |-> 1, seed |-> None, negative |-> None, output |-> ".", no_safety |-> FALSE],
        [prompt |-> None, model |-> "flux-schnell", aspect |-> "square",
         num |-> 1, seed |-> None, negative |-> None, output |-> ".", no_safety |-> FALSE]})

\* parse_args of generate_image.py rejects the command line.
ImageUsageError(a) == a.prompt = None \/ a.aspect \notin ASPECT_RATIOS

\* Mutant: the index suffix is always added.
ImageFileName_AlwaysIndexed(ts, i, n) ==
    "fal_image_" \o ts \o "_" \o ToString(i) \o ".png"

\* Mutant: the index suffix is never added.
ImageFileName_NeverIndexed(ts, i, n) == "fal_image_" \o ts \o ".png"

\* The file name of image i of n (generate_image.py).
ImageFileName(ts, i, n) ==
    "fal_image_" \o ts \o (IF n > 1 THEN "_" \o ToString(i) ELSE "") \o ".png"

\* output_dir / filename, output_dir resolved
JoinPath(dir, name) == dir \o "/" \o name

\* parser.parse_args() of every script: -h prints the help and exits 0, a
\* command line the parser rejects prints the usage error and exits 2.
ParseArgs(usage_error) ==
    /\ pc = "parse"
    /\ IF args.help
       THEN /\ out' = Append(out, Emit("stdout", "usage", "help"))
            /\ Exit(0)
       ELSE IF usage_error
       THEN /\ out' = Append(out, Emit("stderr", "usage", "error"))
            /\ Exit(2)
       ELSE /\ pc' = "client"
            /\ UNCHANGED <<out, exitCode>>
    /\ UNCHANGED <<priceTable, cmd, env, args, submitted, result, idx, fetched, files, saved,
                   timestamp, opened, estimates, call, ret, reads, replies>>

\* Mutant: only an unset key is refused, an empty one is accepted.
NewClient_AcceptsEmptyKey ==
    /\ pc = "client"
    /\ IF env.FAL_API_KEY = None
       THEN /\ out' = out \o
                  <<Emit("stderr", "Error: FAL_API_KEY environment variable is not set.", ""),
                    Emit("stderr", "Get your API key from https://fal.ai/dashboard/keys", "")>>
            /\ Exit(1)
       ELSE /\ pc' = "main"
            /\ UNCHANGED <<out, exitCode>>
    /\ UNCHANGED <<priceTable, cmd, env, args, submitted, result, idx, fetched, files, saved,
                   timestamp, opened, estimates, call, ret, reads, replies>>

\* client = FalClient(): get_api_key() exits with status 1 when FAL_API_KEY is
\* unset or empty.
NewClient ==
    /\ pc = "client"
    /\ IF ~TruthyStr(env.FAL_API_KEY)
       THEN /\ out' = out \o
                  <<Emit("stderr", "Error: FAL_API_KEY environment variable is not set.", ""),
                    Emit("stderr", "Get your API key from https://fal.ai/dashboard/keys", "")>>
            /\ Exit(1)
       ELSE /\ pc' = "main"
            /\ UNCHANGED <<out, exitCode>>
    /\ UNCHANGED <<priceTable, cmd, env, args, submitted, result, idx, fetched, files, saved,
                   timestamp, opened, estimates, call, ret, reads, replies>>

-----------------------------------------------------------------------------
(* generate_image.py *)

ImageParse == cmd = "image" /\ ParseArgs(ImageUsageError(args))

ImageListModels ==
    /\ cmd = "image" /\ pc = "main" /\ args.list_models
    /\ out' = out \o <<Emit("stdout", "Available image generation models:", "")>>
                  \o ListingLines(ImageModelOrder, IMAGE_MODELS)
                  \o <<Emit("stdout", "Use --model <shortname> or --model <full-id>", "")>>
    /\ Exit(0)
    /\ UNCHANGED <<priceTable, cmd, env, args, submitted, result, idx, fetched, files, saved,
                   timestamp, opened, estimates, call, ret, reads, replies>>

\* The call of client.generate_image, the test of its result, and the reading
\* of the clock before the download loop.
ImageGenerate ==
    /\ cmd = "image" /\ pc = "main" /\ ~args.list_models
    /\ \E svc \in ImageService, ts \in Timestamps :
        LET a == [prompt |-> args.prompt[1], model |-> args.model,
                  aspect_ratio |-> args.aspect, num_images |-> args.num,
                  seed |-> args.seed, enable_safety_checker |-> ~args.no_safety,
                  negative_prompt |-> args.negative]
            r == GenerateImage(a, svc)
        IN  /\ submitted' = submitted \o r.submit
            /\ replies' = replies \o r.reply
            /\ reads' = reads \o r.reads
            /\ IF r.outcome.kind = "raise"
               THEN /\ out' = Append(out, Emit("stderr", "Error generating images: ", r.outcome.text))
                    /\ Exit(1)
                    /\ UNCHANGED <<result, idx, timestamp>>
               ELSE IF r.outcome.value = <<>>
               THEN /\ out' = Append(out, Emit("stderr", "No images were generated.", ""))
                    /\ Exit(1)
                    /\ UNCHANGED <<result, idx, timestamp>>
               ELSE /\ result' = Some(r.outcome.value)
                    /\ timestamp' = ts
                    /\ idx' = 1
                    /\ pc' = "download"
                    /\ UNCHANGED <<out, exitCode>>
    /\ UNCHANGED <<priceTable, cmd, env, args, fetched, files, saved, opened, estimates, call, ret>>

\* One round of the download loop: image idx of the list.
ImageDownload ==
    /\ cmd = "image" /\ pc = "download" /\ idx <= Len(result[1])
    /\ LET images == result[1]
           image == images[idx]
           url == DictGet(image, "url", "")
           output_dir == ResolvePath(args.output)
           output_path == JoinPath(output_dir, ImageFileName(timestamp, idx, Len(images)))
       IN  IF url = ""
           THEN /\ out' = Append(out, Emit("stderr", "Warning: Image has no URL", ToString(idx)))
                /\ UNCHANGED <<fetched, files, saved>>
           ELSE \E http \in HttpOutcomes :
                LET d == DownloadFile(files, url, output_path, http)
                IN  /\ fetched' = Append(fetched, [url |-> url, path |-> output_path, http |-> http])
                    /\ files' = d.fs
                    /\ IF d.outcome.kind = "return"
                       THEN /\ saved' = Append(saved, d.outcome.value)
                            /\ out' = out \o <<Emit("stdout", "Downloading image", ToString(idx)),
                                               Emit("stdout", "  Saved: ", d.outcome.value)>>
                       ELSE /\ saved' = saved
                            /\ out' = out \o <<Emit("stdout", "Downloading image", ToString(idx)),
                                               Emit("stderr", "  Error downloading: ", d.outcome.text)>>
    /\ idx' = idx + 1
    /\ UNCHANGED <<priceTable, cmd, env, args, pc, exitCode, submitted, result, timestamp, opened,
                   estimates, call, ret, reads, replies>>

\* After the loop: the summary, and the end of main() unless files are to be opened.
ImageSummary ==
    /\ cmd = "image" /\ pc = "download" /\ idx > Len(result[1])
    /\ out' = Append(out, Emit("stdout", "Generated image(s) in " \o ResolvePath(args.output),
                               ToString(Len(saved))))
    /\ IF args.open /\ saved # <<>>
       THEN pc' = "open" /\ idx' = 1 /\ UNCHANGED exitCode
       ELSE Exit(0) /\ UNCHANGED idx
    /\ UNCHANGED <<priceTable, cmd, env, args, submitted, result, fetched, files, saved, timestamp,
                   opened, estimates, call, ret, reads, replies>>

\* One round of the loop that opens the downloaded files.
ImageOpen ==
    /\ cmd = "image" /\ pc = "open" /\ idx <= Len(saved)
    /\ \E v \in ViewerOutcomes(env.platform) :
        LET o == OpenFile(env.platform, saved[idx], v)
        IN  /\ opened' = opened \o o.ran
            /\ IF o.raised # None THEN Uncaught(o.raised[1]) /\ UNCHANGED idx
               ELSE IF idx = Len(saved) THEN Exit(0) /\ UNCHANGED <<out, idx>>
               ELSE idx' = idx + 1 /\ UNCHANGED <<out, pc, exitCode>>
    /\ UNCHANGED <<priceTable, cmd, env, args, submitted, result, fetched, files, saved, timestamp,
                   estimates, call, ret, reads, replies>>

-----------------------------------------------------------------------------
(* What generate_video.py, generate_video_text.py and generate_speech.py share *)

\* result.get("url") if isinstance(result, dict) else None; None and "" are both
\* falsy and both written "".
UrlOf(v) == IF IsDict(v) THEN DictGet(v.dict, "url", "") ELSE ""

\* The download of the one artifact and its report: on success the path is
\* kept, on failure the error and the URL are printed and the process exits 1.
\* what is "video" or "audio", after is where a successful run goes on.
DownloadArtifact(what, url, output_path, http, after) ==
    LET d == DownloadFile(files, url, output_path, http)
    IN  /\ fetched' = Append(fetched, [url |-> url, path |-> output_path, http |-> http])
        /\ files' = d.fs
        /\ IF d.outcome.kind = "return"
           THEN /\ saved' = <<d.outcome.value>>
                /\ out' = Append(out, Emit("stdout", "Saved: ", d.outcome.value)) \o after.out
                /\ IF args.open THEN pc' = "open" /\ UNCHANGED exitCode ELSE Exit(0)
           ELSE /\ saved' = saved
                /\ out' = out \o
                      <<Emit("stderr", "Error downloading " \o what \o ": ", d.outcome.text),
                        Emit("stdout", "URL (download manually): ", url)>>
                /\ Exit(1)

\* The open step of a command with one artifact.
OpenArtifact ==
    /\ pc = "open"
    /\ \E v \in ViewerOutcomes(env.platform) :
        LET o == OpenFile(env.platform, saved[1], v)
        IN  /\ opened' = opened \o o.ran
            /\ IF o.raised # None THEN Uncaught(o.raised[1])
               ELSE Exit(0) /\ UNCHANGED out
    /\ UNCHANGED <<priceTable, cmd, env, args, submitted, result, idx, fetched, files, saved,
                   timestamp, estimates, call, ret, reads, replies>>

\* The output path of a command with one artifact: --output resolved, or a name
\* with the timestamp in the working directory.
ArtifactPath(prefix, ts, ext) ==
    IF TruthyStr(args.output) THEN ResolvePath(args.output[1])
    ELSE JoinPath(Cwd, prefix \o ts \o "." \o ext)

-----------------------------------------------------------------------------
(* generate_video.py *)

VideoArgs ==
    WithFlags({
        [image |-> Some("cat.png"), prompt |-> None, model |-> "kling",
         duration |-> RInt(5), aspect |-> None, output |-> None],
        [image |-> Some("cat.png"), prompt |-> Some("camera slowly zooms in"),
         model |-> "minimax", duration |-> RInt(5), aspect |-> None, output |-> Some("old.mp4")],
        [image |-> Some("photo.JPG"), prompt |-> None, model |-> "runway-gen3",
         duration |-> RInt(10), aspect |-> Some("16:9"), output |-> Some("out/clip.mp4")],
        [image |-> Some("missing.png"), prompt |-> None, model |-> "kling",
         duration |-> RInt(5), aspect |-> None, output |-> None],
        [image |-> None, prompt |-> None, model |-> "kling",
         duration |-> RInt(5), aspect |-> None, output |-> None]})

VideoUsageError(a) == a.image = None

VideoParse == cmd = "video" /\ ParseArgs(VideoUsageError(args))

\* Mutant: the source image is checked before the listing.
VideoListModels_ChecksImageFirst ==
    /\ cmd = "video" /\ pc = "main" /\ args.list_models
    /\ IF ResolvePath(args.image[1]) \notin DOMAIN files
       THEN out' = Append(out, Emit("stderr", "Error: Image not found: ", args.image[1])) /\ Exit(1)
       ELSE /\ out' = out \o <<Emit("stdout", "Available image-to-video models:", "")>>
                         \o ListingLines(VideoModelOrder, VIDEO_MODELS)
                         \o <<Emit("stdout", "Use --model <shortname> or --model <full-id>", "")>>
            /\ Exit(0)
    /\ UNCHANGED <<priceTable, cmd, env, args, submitted, result, idx, fetched, files, saved,
                   timestamp, opened, estimates, call, ret, reads, replies>>

VideoListModels ==
    /\ cmd = "video" /\ pc = "main" /\ args.list_models
    /\ out' = out \o <<Emit("stdout", "Available image-to-video models:", "")>>
                  \o ListingLines(VideoModelOrder, VIDEO_MODELS)
                  \o <<Emit("stdout", "Use --model <shortname> or --model <full-id>", "")>>
    /\ Exit(0)
    /\ UNCHANGED <<priceTable, cmd, env, args, submitted, result, idx, fetched, files, saved,
                   timestamp, opened, estimates, call, ret, reads, replies>>

\* The check of the source image, the call of client.generate_video and the
\* test of its result.
VideoGenerate ==
    /\ cmd = "video" /\ pc = "main" /\ ~args.list_models
    /\ LET image_path == ResolvePath(args.image[1])
       IN  IF image_path \notin DOMAIN files
           THEN /\ out' = Append(out, Emit("stderr", "Error: Image not found: ", args.image[1]))
                /\ Exit(1)
                /\ UNCHANGED <<submitted, result, reads, replies>>
           ELSE \E svc \in VideoService :
                LET a == [image_path |-> image_path, prompt |-> args.prompt,
                          model |-> args.model, duration |-> args.duration,
                          aspect_ratio |-> args.aspect]
                    r == GenerateVideo(files, a, svc)
                IN  /\ submitted' = submitted \o r.submit
                    /\ replies' = replies \o r.reply
                    /\ reads' = reads \o r.reads
                    /\ IF r.outcome.kind = "raise"
                       THEN /\ out' = Append(out, Emit("stderr", "Error generating video: ", r.outcome.text))
                            /\ Exit(1)
                            /\ UNCHANGED result
                       ELSE IF UrlOf(r.outcome.value) = ""
                       THEN /\ out' = Append(out, Emit("stderr", "Unexpected result format: ", ""))
                            /\ Exit(1)
                            /\ UNCHANGED result
                       ELSE /\ result' = Some(UrlOf(r.outcome.value))
                            /\ pc' = "download"
                            /\ UNCHANGED <<out, exitCode>>
    /\ UNCHANGED <<priceTable, cmd, env, args, idx, fetched, files, saved, timestamp, opened,
                   estimates, call, ret>>

VideoDownload ==
    /\ cmd = "video" /\ pc = "download"
    /\ \E ts \in Timestamps, http \in HttpOutcomes :
        /\ timestamp' = IF TruthyStr(args.output) THEN timestamp ELSE ts
        /\ DownloadArtifact("video", result[1], ArtifactPath("fal_video_", ts, "mp4"), http,
                            [out |-> <<>>])
    /\ UNCHANGED <<priceTable, cmd, env, args, submitted, result, idx, opened, estimates, call, ret, reads, replies>>

VideoOpen == cmd = "video" /\ OpenArtifact

-----------------------------------------------------------------------------
(* generate_video_text.py *)

TextVideoArgs ==
    WithFlags({
        [prompt |-> Some("a cat walking on the beach at sunset"), model |-> "ltx-v2-fast",
         aspect |-> "16:9", resolution |-> "720p", duration |-> None, seed |-> None,
         output |-> None],
        [prompt |-> Some("cinematic drone shot of mountains"), model |-> "minimax",
         aspect |-> "16:9", resolution |-> "720p", duration |-> Some(RInt(0)), seed |-> None,
         output |-> None],
        [prompt |-> Some("person dancing"), model |-> "acme/custom-model",
         aspect |-> "9:16", resolution |-> "1080p", duration |-> Some(RInt(10)),
         seed |-> Some(0), output |-> Some("out/dance.mp4")],
        [prompt |-> Some(""), model |-> "ltx-v2-fast",
         aspect |-> "16:9", resolution |-> "720p", duration |-> None, seed |-> None,
         output |-> None],
        [prompt |-> None, model |-> "ltx-v2-fast",
         aspect |-> "16:9", resolution |-> "720p", duration |-> None, seed |-> None,
         output |-> None]})

\* The positional prompt is optional (nargs="?"): the parser accepts every
\* command line of the model.
TextVideoUsageError(a) == FALSE

TextVideoParse == cmd = "t2v" /\ ParseArgs(TextVideoUsageError(args))

\* One record of a cost estimate the run computed.
EstimateCall(fn, model_id, usage, value) ==
    [fn |-> fn, model_id |-> model_id, usage |-> usage, value |-> value]

\* The listing with the estimated cost of five seconds of every model.
TextVideoListModels ==
    /\ cmd = "t2v" /\ pc = "main" /\ args.list_models
    /\ LET n == Len(TextToVideoModelOrder)
           id(i) == TEXT_TO_VIDEO_MODELS[TextToVideoModelOrder[i]]
           cost_info(i) == EstimateVideoCost(id(i), RInt(5))
       IN  /\ estimates' = estimates \o
                  [i \in 1..n |-> EstimateCall("estimate_video_cost", id(i), RInt(5), cost_info(i))]
           /\ out' = out \o <<Emit("stdout", "Available text-to-video models:", "")>>
                  \o ListingLines(TextToVideoModelOrder, TEXT_TO_VIDEO_MODELS)
                  \o [i \in 1..n |->
                        Emit("stdout", IF cost_info(i) # None THEN "~$/5s" ELSE "pricing N/A",
                             TextToVideoModelOrder[i])]
                  \o <<Emit("stdout", "Use --model <shortname> or --model <full-id>", "")>>
    /\ Exit(0)
    /\ UNCHANGED <<priceTable, cmd, env, args, submitted, result, idx, fetched, files, saved,
                   timestamp, opened, call, ret, reads, replies>>

\* The test of the prompt (parser.error exits with status 2), the call of
\* client.generate_video_from_text and the test of its result.
TextVideoGenerate ==
    /\ cmd = "t2v" /\ pc = "main" /\ ~args.list_models
    /\ IF ~TruthyStr(args.prompt)
       THEN /\ out' = Append(out, Emit("stderr", "usage",
                                       "error: the following arguments are required: prompt"))
            /\ Exit(2)
            /\ UNCHANGED <<submitted, result, reads, replies>>
       ELSE \E svc \in VideoService :
            LET a == [prompt |-> args.prompt[1], model |-> args.model,
                      aspect_ratio |-> args.aspect, resolution |-> args.resolution,
                      duration |-> args.duration, seed |-> args.seed]
                r == GenerateVideoFromText(a, svc)
            IN  /\ submitted' = submitted \o r.submit
                /\ replies' = replies \o r.reply
                /\ reads' = reads \o r.reads
                /\ IF r.outcome.kind = "raise"
                   THEN /\ out' = Append(out, Emit("stderr", "Error generating video: ", r.outcome.text))
                        /\ Exit(1)
                        /\ UNCHANGED result
                   ELSE IF UrlOf(r.outcome.value) = ""
                   THEN /\ out' = Append(out, Emit("stderr", "Unexpected result format: ", ""))
                        /\ Exit(1)
                        /\ UNCHANGED result
                   ELSE /\ result' = Some(UrlOf(r.outcome.value))
                        /\ pc' = "download"
                        /\ UNCHANGED <<out, exitCode>>
    /\ UNCHANGED <<priceTable, cmd, env, args, idx, fetched, files, saved, timestamp, opened,
                   estimates, call, ret>>

\* Mutant: a model without a price is refused before the download.
TextVideoDownload_RequiresPrice ==
    /\ cmd = "t2v" /\ pc = "download"
    /\ \E ts \in Timestamps, http \in HttpOutcomes :
        LET model_id == TextToVideoModelId(args.model)
            duration == IF TruthyNum(args.duration) THEN args.duration[1] ELSE RInt(5)
            cost_info == EstimateVideoCost(model_id, duration)
        IN  IF cost_info = None
            THEN /\ out' = Append(out, Emit("stderr", "Error: no price for ", model_id))
                 /\ Exit(1)
                 /\ estimates' = Append(estimates, EstimateCall("estimate_video_cost", model_id,
                                                                duration, cost_info))
                 /\ UNCHANGED <<fetched, files, saved, timestamp>>
            ELSE /\ timestamp' = IF TruthyStr(args.output) THEN timestamp ELSE ts
                 /\ DownloadArtifact("video", result[1],
                                     ArtifactPath("fal_video_t2v_", ts, "mp4"), http,
                                     [out |-> <<Emit("stdout", "Estimated cost: ", model_id)>>])
                 /\ estimates' = IF http = "ok"
                                 THEN Append(estimates, EstimateCall("estimate_video_cost", model_id,
                                                                     duration, cost_info))
                                 ELSE estimates
    /\ UNCHANGED <<priceTable, cmd, env, args, submitted, result, idx, opened, call, ret, reads, replies>>

\* The download and, after a successful one, the cost estimate of the run.
TextVideoDownload ==
    /\ cmd = "t2v" /\ pc = "download"
    /\ \E ts \in Timestamps, http \in HttpOutcomes :
        LET model_id == TextToVideoModelId(args.model)
            duration == IF TruthyNum(args.duration) THEN args.duration[1] ELSE RInt(5)
            cost_info == EstimateVideoCost(model_id, duration)
        IN  /\ timestamp' = IF TruthyStr(args.output) THEN timestamp ELSE ts
            /\ DownloadArtifact("video", result[1], ArtifactPath("fal_video_t2v_", ts, "mp4"), http,
                                [out |-> IF cost_info # None
                                         THEN <<Emit("stdout", "Estimated cost: ", model_id)>>
                                         ELSE <<>>])
            /\ estimates' = IF http = "ok"
                            THEN Append(estimates, EstimateCall("estimate_video_cost", model_id,
                                                                duration, cost_info))
                            ELSE estimates
    /\ UNCHANGED <<priceTable, cmd, env, args, submitted, result, idx, opened, call, ret, reads, replies>>

TextVideoOpen == cmd = "t2v" /\ OpenArtifact

-----------------------------------------------------------------------------
(* generate_speech.py *)

SpeechArgs ==
    WithFlags({
        [text |-> Some("Hello, world!"), model |-> "f5-tts", reference |-> None,
         voice |-> None, speed |-> RInt(1), output |-> None],
        [text |-> Some("Clone my voice"), model |-> "f5-tts", reference |-> Some("voice.wav"),
         voice |-> None, speed |-> RInt(1), output |-> None],
        [text |-> Some("Welcome to our podcast"), model |-> "kokoro", reference |-> None,
         voice |-> Some("af_heart"), speed |-> Rat(3, 2), output |-> Some("out/hello.mp3")],
        [text |-> Some("Clone my voice"), model |-> "f5-tts", reference |-> Some("missing.wav"),
         voice |-> None, speed |-> RInt(1), output |-> None],
        [text |-> None, model |-> "f5-tts", reference |-> None,
         voice |-> None, speed |-> RInt(1), output |-> None]})

SpeechUsageError(a) == a.text = None

SpeechParse == cmd = "speech" /\ ParseArgs(SpeechUsageError(args))

SpeechListModels ==
    /\ cmd = "speech" /\ pc = "main" /\ args.list_models
    /\ out' = out \o <<Emit("stdout", "Available text-to-speech models:", "")>>
                  \o ListingLines(TtsModelOrder, TTS_MODELS)
                  \o <<Emit("stdout", "Use --model <shortname> or --model <full-id>", "")>>
    /\ Exit(0)
    /\ UNCHANGED <<priceTable, cmd, env, args, submitted, result, idx, fetched, files, saved,
                   timestamp, opened, estimates, call, ret, reads, replies>>

\* The search of the audio URL in the result: "url", then "audio_url", then
\* "url" of the nested "audio"; raises AttributeError when the nested "audio" is
\* no dict.
AudioUrlOf(v) ==
    IF UrlOf(v) # "" THEN Return(UrlOf(v))
    ELSE IF ~IsDict(v) THEN Return("")
    ELSE IF DictGet(v.dict, "audio_url", "") # "" THEN Return(v.dict.audio_url)
    ELSE IF "audio" \notin DOMAIN v.dict THEN Return("")
    ELSE IF ~IsDict(v.dict.audio) THEN Raise("AttributeError", "'str' object has no attribute 'get'")
    ELSE Return(DictGet(v.dict.audio.dict, "url", ""))

\* The extension of the default output name.
AudioExt(audio_url) ==
    IF Contains(audio_url, ".mp3") THEN "mp3"
    ELSE IF Contains(audio_url, ".ogg") THEN "ogg"
    ELSE "wav"

\* The check of the reference audio, the call of client.text_to_speech and the
\* search of the audio URL in its result.
SpeechGenerate ==
    /\ cmd = "speech" /\ pc = "main" /\ ~args.list_models
    /\ IF TruthyStr(args.reference) /\ ResolvePath(args.reference[1]) \notin DOMAIN files
       THEN /\ out' = Append(out, Emit("stderr", "Error: Reference audio not found: ",
                                       args.reference[1]))
            /\ Exit(1)
            /\ UNCHANGED <<submitted, result, reads, replies>>
       ELSE \E svc \in SpeechService :
            LET a == [text |-> args.text[1], model |-> args.model, voice |-> args.voice,
                      reference_audio |-> args.reference, speed |-> args.speed]
                r == TextToSpeech(files, a, svc)
            IN  /\ submitted' = submitted \o r.submit
                /\ replies' = replies \o r.reply
                /\ reads' = reads \o r.reads
                /\ IF r.outcome.kind = "raise"
                   THEN /\ out' = Append(out, Emit("stderr", "Error generating speech: ", r.outcome.text))
                        /\ Exit(1)
                        /\ UNCHANGED result
                   ELSE IF AudioUrlOf(r.outcome.value).kind = "raise"
                   THEN /\ Uncaught(AudioUrlOf(r.outcome.value).exc)
                        /\ UNCHANGED result
                   ELSE IF AudioUrlOf(r.outcome.value).value = ""
                   THEN /\ out' = Append(out, Emit("stderr", "Unexpected result format: ", ""))
                        /\ Exit(1)
                        /\ UNCHANGED result
                   ELSE /\ result' = Some(AudioUrlOf(r.outcome.value).value)
                        /\ pc' = "download"
                        /\ UNCHANGED <<out, exitCode>>
    /\ UNCHANGED <<priceTable, cmd, env, args, idx, fetched, files, saved, timestamp, opened,
                   estimates, call, ret>>

SpeechDownload ==
    /\ cmd = "speech" /\ pc = "download"
    /\ \E ts \in Timestamps, http \in HttpOutcomes :
        /\ timestamp' = IF TruthyStr(args.output) THEN timestamp ELSE ts
        /\ DownloadArtifact("audio", result[1],
                            ArtifactPath("fal_speech_", ts, AudioExt(result[1])), http,
                            [out |-> <<>>])
    /\ UNCHANGED <<priceTable, cmd, env, args, submitted, result, idx, opened, estimates, call, ret, reads, replies>>

SpeechOpen == cmd = "speech" /\ OpenArtifact

-----------------------------------------------------------------------------
(* A run of a command *)

ArgsOf(c) ==
    CASE c = "image" -> ImageArgs
      [] c = "video" -> VideoArgs
      [] c = "t2v" -> TextVideoArgs
      [] c = "speech" -> SpeechArgs

\* The start of a run of a command, whatever the price table is.
StartOfRun ==
    /\ cmd \in {"image", "video", "t2v", "speech"}
    /\ args \in ArgsOf(cmd)
    /\ env \in [FAL_API_KEY : {None, Some(""), Some("key")}, platform : Platforms]
    /\ pc = "parse"
    /\ exitCode = None
    /\ out = <<>>
    /\ submitted = <<>>
    /\ result = None
    /\ idx = 0
    /\ fetched = <<>>
    /\ files = InitialDisk
    /\ saved = <<>>
    /\ timestamp = ""
    /\ opened = <<>>
    /\ estimates = <<>>
    /\ call = None
    /\ ret = None
    /\ reads = <<>>
    /\ replies = <<>>

Init == StartOfRun /\ priceTable = PRICING

Next ==
    \/ ImageParse
    \/ NewClient
    \/ ImageListModels
    \/ ImageGenerate
    \/ ImageDownload
    \/ ImageSummary
    \/ ImageOpen
    \/ VideoParse
    \/ VideoListModels
    \/ VideoGenerate
    \/ VideoDownload
    \/ VideoOpen
    \/ TextVideoParse
    \/ TextVideoListModels
    \/ TextVideoGenerate
    \/ TextVideoDownload
    \/ TextVideoOpen
    \/ SpeechParse
    \/ SpeechListModels
    \/ SpeechGenerate
    \/ SpeechDownload
    \/ SpeechOpen

Spec == Init /\ [][Next]_vars

\* The program used either way: a run of a command, or one direct call of a
\* method of FalClient.
AllInit == Init \/ LibInit

AllNext == Next \/ LibNext

SpecAll == AllInit /\ [][AllNext]_vars

\* A price of one unit_price per unit for every model of a set.
FlatPrices(ids, n, d, unit) == [id \in ids |-> Price(n, d, unit)]

\* Price tables other than the one of the source: no entry at all, every
\* text-to-video model and a model of no catalog priced per video, and the same
\* priced per second.
PriceTables ==
    LET ids == {TEXT_TO_VIDEO_MODELS[m] : m \in DOMAIN TEXT_TO_VIDEO_MODELS}
                   \cup {"acme/custom-model"}
    IN  {PRICING, EmptyDict, FlatPrices(ids, 2, 1, "videos"), FlatPrices(ids, 1, 100, "seconds")}

\* The commands run with any of the price tables.
PricesInit == StartOfRun /\ priceTable \in PriceTables

SpecPrices == PricesInit /\ [][Next]_vars

-----------------------------------------------------------------------------
(* Properties of the client library (SpecLib) *)

GenerateFns ==
    {"generate_image", "generate_video", "generate_video_from_text", "text_to_speech"}

\* The catalog of the category of a generate_* operation.
CatalogOf(fn) ==
    CASE fn = "generate_image" -> IMAGE_MODELS
      [] fn = "generate_video" -> VIDEO_MODELS
      [] fn = "generate_video_from_text" -> TEXT_TO_VIDEO_MODELS
      [] fn = "text_to_speech" -> TTS_MODELS

IsCall(fn) == call # None /\ call[1].fn = fn

\* C1: in each of the four operations the model identifier handed to the
\* submission is the entry of the operation's own catalog when the given name is
\* a shortname of that catalog, and the given name itself for any other string;
\* resolution never fails: a call submits exactly once, unless the reference file
\* it has to read is missing.
C1_ModelResolution ==
    (call # None /\ call[1].fn \in GenerateFns) =>
        LET fn == call[1].fn
            model == call[1].a.model
        IN  /\ Len(submitted) <= 1
            /\ \A i \in 1..Len(submitted) :
                  submitted[i].model_id =
                      (IF model \in DOMAIN CatalogOf(fn) THEN CatalogOf(fn)[model] ELSE model)
            /\ submitted = <<>> => (ret.kind = "raise" /\ ret.exc = "FileNotFoundError")

\* C1 witness: "minimax" is a shortname of two catalogs; image-to-video submits
\* the image-to-video entry.
C1_Witness ==
    /\ IsCall("generate_video")
    /\ call[1].a.model = "minimax"
    /\ Len(submitted) = 1
    /\ submitted[1].model_id = "fal-ai/minimax-video/image-to-video"

\* C2: the num_images of the submitted payload is the input when it is in [1,4],
\* 1 for every input below 1 and 4 for every input above 4.
C2_NumImagesClamped ==
    IsCall("generate_image") =>
        LET n == call[1].a.num_images
            sent == submitted[1].payload.num_images
        IN  /\ Len(submitted) = 1
            /\ sent \in 1..4
            /\ (1 <= n /\ n <= 4) => sent = n
            /\ n < 1 => sent = 1
            /\ n > 4 => sent = 4

\* C2 witness: an input above the range is sent as 4.
C2_Witness ==
    /\ IsCall("generate_image")
    /\ call[1].a.num_images = 5
    /\ submitted[1].payload.num_images = 4

\* The keys of the payload a call submitted.
SentKeys == DOMAIN submitted[1].payload

\* C4 as claimed: required fields are present, and an optional parameter left at
\* its default or left absent is no key of the payload.
C4_OptionalOmittedAtDefault ==
    (call # None /\ call[1].fn \in GenerateFns /\ submitted # <<>>) =>
        LET fn == call[1].fn
            a == call[1].a
        IN  /\ fn = "generate_image" =>
                /\ {"prompt", "num_images", "enable_safety_checker"} \subseteq SentKeys
                /\ a.aspect_ratio = "square" => "image_size" \notin SentKeys
                /\ a.seed = None => "seed" \notin SentKeys
                /\ a.negative_prompt = None => "negative_prompt" \notin SentKeys
            /\ fn = "generate_video" =>
                /\ "image_url" \in SentKeys
                /\ a.prompt = None => "prompt" \notin SentKeys
                /\ a.duration = RInt(5) => "duration" \notin SentKeys
                /\ a.aspect_ratio = None => "aspect_ratio" \notin SentKeys
            /\ fn = "generate_video_from_text" =>
                /\ "prompt" \in SentKeys
                /\ a.aspect_ratio = "16:9" => "aspect_ratio" \notin SentKeys
                /\ a.resolution = "720p" => "resolution" \notin SentKeys
                /\ a.duration = None => "duration" \notin SentKeys
                /\ a.seed = None => "seed" \notin SentKeys
            /\ fn = "text_to_speech" =>
                /\ "gen_text" \in SentKeys
                /\ a.voice = None => "voice" \notin SentKeys
                /\ a.reference_audio = None => "ref_audio_url" \notin SentKeys
                /\ a.speed = RInt(1) => "speed" \notin SentKeys

\* C4 amended: required fields are always present; a parameter left absent (None
\* or empty) is no key of the payload; image aspect "square" and speech speed 1.0
\* are omitted; but the text-to-video aspect ratio and resolution are keys
\* whenever they are non-empty, and the image-to-video duration whenever it is
\* non-zero, their defaults "16:9", "720p" and 5.0 (sent as "5") included.
C4_PayloadKeys ==
    (call # None /\ call[1].fn \in GenerateFns /\ submitted # <<>>) =>
        LET fn == call[1].fn
            a == call[1].a
            pl == submitted[1].payload
        IN  /\ fn = "generate_image" =>
                /\ {"prompt", "num_images", "enable_safety_checker"} \subseteq SentKeys
                /\ "image_size" \in SentKeys <=> a.aspect_ratio \notin {"", "square"}
                /\ "seed" \in SentKeys <=> a.seed # None
                /\ "negative_prompt" \in SentKeys <=> a.negative_prompt \notin {None, Some("")}
                /\ SentKeys \subseteq {"prompt", "num_images", "enable_safety_checker",
                                       "image_size", "seed", "negative_prompt"}
            /\ fn = "generate_video" =>
                /\ "image_url" \in SentKeys
                /\ "prompt" \in SentKeys <=> a.prompt \notin {None, Some("")}
                /\ "duration" \in SentKeys <=> a.duration # RInt(0)
                /\ a.duration = RInt(5) => pl.duration = "5"
                /\ "aspect_ratio" \in SentKeys <=> a.aspect_ratio \notin {None, Some("")}
                /\ SentKeys \subseteq {"image_url", "prompt", "duration", "aspect_ratio"}
            /\ fn = "generate_video_from_text" =>
                /\ "prompt" \in SentKeys
                /\ "aspect_ratio" \in SentKeys <=> a.aspect_ratio # ""
                /\ "resolution" \in SentKeys <=> a.resolution # ""
                /\ a.aspect_ratio = "16:9" => pl.aspect_ratio = "16:9"
                /\ a.resolution = "720p" => pl.resolution = "720p"
                /\ "duration" \in SentKeys <=> a.duration # None
                /\ "seed" \in SentKeys <=> a.seed # None
                /\ SentKeys \subseteq {"prompt", "aspect_ratio", "resolution", "duration", "seed"}
            /\ fn = "text_to_speech" =>
                /\ "gen_text" \in SentKeys
                /\ "voice" \in SentKeys <=> a.voice \notin {None, Some("")}
                /\ "ref_audio_url" \in SentKeys <=> a.reference_audio \notin {None, Some("")}
                /\ "speed" \in SentKeys <=> a.speed # RInt(1)
                /\ SentKeys \subseteq {"gen_text", "voice", "ref_audio_url", "speed"}

\* C4 witness: text-to-video called with every optional parameter at its default
\* submits the default aspect ratio and resolution.
C4_Witness ==
    /\ IsCall("generate_video_from_text")
    /\ call[1].a.aspect_ratio = "16:9" /\ call[1].a.resolution = "720p"
    /\ call[1].a.duration = None /\ call[1].a.seed = None
    /\ Len(submitted) = 1
    /\ SentKeys = {"prompt", "aspect_ratio", "resolution"}

EstimatorFns == {"estimate_image_cost", "estimate_video_cost", "estimate_tts_cost"}

\* C8: for a model identifier without a PRICING entry every estimator returns
\* None and raises nothing.
C8_UnknownModelUnavailable ==
    (call # None /\ call[1].fn \in EstimatorFns /\ call[1].a.model_id \notin DOMAIN PRICING) =>
        (ret.kind = "return" /\ ret.value = None)

\* C8 witness: the speech estimator asked about a catalog shortname, which is
\* no key of PRICING.
C8_Witness ==
    /\ IsCall("estimate_tts_cost")
    /\ call[1].a.model_id = "flux-schnell"
    /\ call[1].a.text # ""
    /\ ret = Return(None)

\* The units each estimator has a formula for.
UnitsOf(fn) ==
    CASE fn = "estimate_image_cost" -> {"megapixels", "images"}
      [] fn = "estimate_video_cost" -> {"seconds", "compute seconds", "videos"}
      [] fn = "estimate_tts_cost" -> {"1000 characters", "minutes"}

\* The documented formula of a unit, on the usage parameters a of a call.
FormulaCost(unit, price, a) ==
    CASE unit = "megapixels" ->
            RMul(RMul(price, Rat(a.width * a.height, 1000000)), RInt(a.num_images))
      [] unit = "images" -> RMul(price, RInt(a.num_images))
      [] unit \in {"seconds", "compute seconds"} -> RMul(price, a.duration_seconds)
      [] unit = "videos" -> price
      [] unit = "1000 characters" -> RMul(price, Rat(Len(a.text), 1000))
      [] unit = "minutes" -> RMul(price, Rat(Len(a.text), 750))

\* A priced model given to the estimator that handles its unit.
PricedCall ==
    /\ call # None
    /\ call[1].fn \in EstimatorFns
    /\ call[1].a.model_id \in DOMAIN PRICING
    /\ PRICING[call[1].a.model_id].unit \in UnitsOf(call[1].fn)

\* C9: for a priced model the estimate of the estimator of its unit is the
\* formula of that unit, a function of the model identifier and the usage
\* parameters alone.
C9_CostFormula ==
    PricedCall =>
        LET a == call[1].a
            entry == PRICING[a.model_id]
        IN  ret = Return(Some([cost |-> FormulaCost(entry.unit, entry.unit_price, a),
                               unit |-> entry.unit]))

\* C9 witness: the example of the specification, 1024 x 1024 at $0.003/MP, one
\* image: 0.003 x 1.048576.
C9_Witness ==
    /\ IsCall("estimate_image_cost")
    /\ call[1].a = [model_id |-> "fal-ai/flux/schnell", num_images |-> 1,
                    width |-> 1024, height |-> 1024]
    /\ ret.value[1].cost = Rat(3145728, 1000000000)

\* The estimate of the call's estimator with the usage parameter multiplied by k.
ScaledCost(k) ==
    LET fn == call[1].fn
        a == call[1].a
    IN  CASE fn = "estimate_image_cost" ->
                EstimateImageCost(a.model_id, k * a.num_images, a.width, a.height)[1].cost
          [] fn = "estimate_video_cost" ->
                EstimateVideoCost(a.model_id, RMul(RInt(k), a.duration_seconds))[1].cost
          [] fn = "estimate_tts_cost" ->
                EstimateTtsCost(a.model_id, Text(k * Len(a.text)))[1].cost

\* C10 as claimed: for every priced model the estimate is linear in the count,
\* the duration or the character count, and zero usage costs zero.
C10_LinearEveryUnit ==
    PricedCall =>
        \A k \in 0..MaxK : ScaledCost(k) = RMul(RInt(k), ret.value[1].cost)

\* C10 amended: the estimate is linear in the usage parameter (in exact
\* arithmetic), and zero at zero usage, for every priced model whose unit is not
\* "videos"; a model priced per video costs its unit price whatever the duration.
C10_LinearExceptPerVideo ==
    PricedCall =>
        \A k \in 0..MaxK :
            IF PRICING[call[1].a.model_id].unit = "videos"
            THEN ScaledCost(k) = PRICING[call[1].a.model_id].unit_price
            ELSE ScaledCost(k) = RMul(RInt(k), ret.value[1].cost)

\* C10 witness: a model priced per second, asked about a non-zero duration.
C10_Witness ==
    /\ IsCall("estimate_video_cost")
    /\ call[1].a.model_id = "fal-ai/kling-video/v1.5/pro/image-to-video"
    /\ call[1].a.duration_seconds = RInt(5)
    /\ ret.value[1].cost = Rat(1, 2)

-----------------------------------------------------------------------------
(* Properties of the commands (Spec) *)

\* The image command run with the default model, aspect and count, without
\* seed, negative prompt and --no-safety.
ImageDefaults ==
    /\ cmd = "image"
    /\ args.model = "flux-schnell" /\ args.aspect = "square" /\ args.num = 1
    /\ args.seed = None /\ args.negative = None /\ ~args.no_safety

\* The files on disk that were not there before the run.
NewFiles == DOMAIN files \ DOMAIN InitialDisk

\* C3: the image command with a prompt and defaults submits a payload with
\* exactly the keys prompt, num_images = 1 and enable_safety_checker = true; and
\* when the service returns one image with a URL and the download succeeds,
\* exactly one file is written, named fal_image_<timestamp>.png in the output
\* directory.
C3_DefaultImageRun ==
    ImageDefaults =>
        /\ \A i \in 1..Len(submitted) :
              /\ DOMAIN submitted[i].payload = {"prompt", "num_images", "enable_safety_checker"}
              /\ submitted[i].payload.prompt = args.prompt[1]
              /\ submitted[i].payload.num_images = 1
              /\ submitted[i].payload.enable_safety_checker = TRUE
        /\ (/\ result # None /\ Len(result[1]) = 1 /\ "url" \in DOMAIN result[1][1]
            /\ fetched # <<>> /\ fetched[1].http = "ok") =>
              /\ Len(fetched) = 1
              /\ timestamp \in Timestamps
              /\ NewFiles = {ResolvePath(args.output) \o "/fal_image_" \o timestamp \o ".png"}
              /\ saved = <<ResolvePath(args.output) \o "/fal_image_" \o timestamp \o ".png">>

\* C3 witness: the run of the scenario has ended with status 0 and one file.
C3_Witness ==
    /\ ImageDefaults
    /\ pc = "exit" /\ exitCode = Some(0)
    /\ submitted = <<Submission("fal-ai/flux/schnell",
                                [prompt |-> "A cat", num_images |-> 1,
                                 enable_safety_checker |-> TRUE])>>
    /\ Len(result[1]) = 1
    /\ NewFiles = {"/work/fal_image_20260104_093000.png"}

NoKey == ~TruthyStr(env.FAL_API_KEY)

\* The command line is one the parser of the command rejects.
UsageError ==
    CASE cmd = "image" -> ImageUsageError(args)
      [] cmd = "video" -> VideoUsageError(args)
      [] cmd = "t2v" -> TextVideoUsageError(args)
      [] cmd = "speech" -> SpeechUsageError(args)

OnStderr(msg) == \E j \in 1..Len(out) : out[j].fd = "stderr" /\ out[j].msg = msg

\* C5 as claimed: without FAL_API_KEY every run ends with a nonzero status and an
\* error message, and nothing is submitted or downloaded.
C5_NoKeyExitsNonzero ==
    NoKey =>
        /\ submitted = <<>> /\ fetched = <<>>
        /\ pc = "exit" =>
              /\ exitCode # Some(0)
              /\ \E j \in 1..Len(out) : out[j].fd = "stderr"

\* C5 amended: without FAL_API_KEY nothing is submitted or downloaded and main()
\* goes no further than the construction of the client; the run ends with status
\* 1 and the FAL_API_KEY message (list-models mode included), unless the parser
\* ends it first: with status 0 for -h/--help, with status 2 and a usage error
\* for a command line it rejects.
C5_NoKeyNoNetwork ==
    NoKey =>
        /\ submitted = <<>> /\ fetched = <<>> /\ opened = <<>> /\ NewFiles = {}
        /\ pc \in {"parse", "client", "exit"}
        /\ pc = "exit" =>
              IF args.help THEN exitCode = Some(0)
              ELSE IF UsageError THEN exitCode = Some(2) /\ OnStderr("usage")
              ELSE /\ exitCode = Some(1)
                   /\ OnStderr("Error: FAL_API_KEY environment variable is not set.")

\* C5 witness: list-models mode without a key has ended with status 1.
C5_Witness ==
    /\ NoKey /\ args.list_models /\ ~args.help
    /\ pc = "exit" /\ exitCode = Some(1)
    /\ OnStderr("Error: FAL_API_KEY environment variable is not set.")

\* C6: whenever a download fails, the failure is reported and the URL of the
\* artifact is printed.
C6_FailedDownloadShowsUrl ==
    \A i \in 1..Len(fetched) :
        fetched[i].http # "ok" =>
            /\ \E j \in 1..Len(out) :
                  out[j].fd = "stderr" /\ Contains(out[j].msg, "Error downloading")
            /\ \E j \in 1..Len(out) : Contains(out[j].arg, fetched[i].url)

\* C7, the clause on downloads: with an API key, a run in which every download
\* failed does not end with status 0.
C7_FailedDownloadsExitNonzero ==
    (/\ ~NoKey /\ pc = "exit"
     /\ fetched # <<>>
     /\ \A i \in 1..Len(fetched) : fetched[i].http # "ok") =>
        exitCode # Some(0)

-----------------------------------------------------------------------------
(* Properties of the encoders (SpecLib) *)

\* The data URI of a MIME type and a file content.
DataUri(mime, content) == "data:" \o mime \o ";base64," \o B64(content)

\* The data URI the call put into the payload under key.
SentUri(key) == submitted[1].payload[key]

\* The MIME type the two suffix tables give to the paths of the model, by the
\* extension of the file that the path names once symbolic links are followed.
MimeOfImage ==
    ("cat.png" :> "image/png") @@ ("photo.JPG" :> "image/jpeg") @@
    ("scan.jpeg" :> "image/jpeg") @@ ("anim.gif" :> "image/gif") @@
    ("pic.webp" :> "image/webp") @@ ("raw.bmp" :> "image/png") @@
    ("clip" :> "image/png") @@ (".png" :> "image/png") @@
    ("voice.wav" :> "image/png") @@ ("link.jpg" :> "image/png")

MimeOfAudio ==
    ("voice.wav" :> "audio/wav") @@ ("song.mp3" :> "audio/mpeg") @@
    ("talk.OGG" :> "audio/ogg") @@ ("memo.m4a" :> "audio/mp4") @@
    ("take.flac" :> "audio/flac") @@ ("note.aac" :> "audio/mpeg") @@
    ("clip" :> "audio/mpeg") @@ (".wav" :> "audio/mpeg") @@
    ("cat.png" :> "audio/mpeg") @@ ("ref.mp3" :> "audio/wav")

\* A call that encoded an existing file: the source image of image-to-video or
\* the reference audio of speech.
EncodedImage == IsCall("generate_video") /\ submitted # <<>>

EncodedAudio ==
    IsCall("text_to_speech") /\ submitted # <<>> /\ TruthyStr(call[1].a.reference_audio)

\* C11 as claimed: the data URI carries the MIME type the table maps the
\* lower-cased extension of the given path to, and the default (image/png,
\* audio/mpeg) for an extension not in the table or no extension.
C11_MimeOfGivenPath ==
    /\ EncodedImage =>
          \E content \in {InitialDisk[f] : f \in DOMAIN InitialDisk} :
              SentUri("image_url") =
                  DataUri(DictGet(ImageMimeTypes, Lower(PathSuffix(call[1].a.image_path)),
                                  "image/png"), content)
    /\ EncodedAudio =>
          \E content \in {InitialDisk[f] : f \in DOMAIN InitialDisk} :
              SentUri("ref_audio_url") =
                  DataUri(DictGet(AudioMimeTypes, Lower(PathSuffix(call[1].a.reference_audio[1])),
                                  "audio/mpeg"), content)

\* C11 amended: the MIME type is the one of the lower-cased extension of the
\* resolved path, that is of the file a symbolic link points to (link.jpg -> cat.png
\* encodes as image/png, ref.mp3 -> voice.wav as audio/wav); a name that is only a
\* dot and letters (".wav") has no extension; an extension of neither table and no
\* extension give image/png and audio/mpeg.
C11_MimeOfResolvedPath ==
    /\ EncodedImage =>
          /\ call[1].a.image_path \in DOMAIN MimeOfImage
          /\ SentUri("image_url") =
                 DataUri(MimeOfImage[call[1].a.image_path],
                         InitialDisk[ResolvePath(call[1].a.image_path)])
    /\ EncodedAudio =>
          /\ call[1].a.reference_audio[1] \in DOMAIN MimeOfAudio
          /\ SentUri("ref_audio_url") =
                 DataUri(MimeOfAudio[call[1].a.reference_audio[1]],
                         InitialDisk[ResolvePath(call[1].a.reference_audio[1])])

\* C11 witness: a symbolic link named .jpg to a .png file was encoded.
C11_Witness ==
    /\ EncodedImage
    /\ call[1].a.image_path = "link.jpg"
    /\ SentUri("image_url") = "data:image/png;base64,b64<PNGDATA>"

-----------------------------------------------------------------------------
(* Properties of the commands: submission and its failures (Spec) *)

\* The run has ended with a status other than 0.
ExitedNonzero == pc = "exit" /\ exitCode # None /\ exitCode[1] # 0

\* Some message on stderr carries the text.
ReportedText(text) == \E j \in 1..Len(out) : out[j].fd = "stderr" /\ out[j].arg = text

\* C12: a run submits at most one job; when the submission fails the error text
\* is printed on stderr, nothing is downloaded or written, and the run has ended
\* with a nonzero status (so nothing is submitted after it).
C12_SingleSubmission ==
    /\ Len(submitted) <= 1
    /\ Len(replies) = Len(submitted)
    /\ "raise" \in {replies[i] : i \in 1..Len(replies)} =>
          /\ ExitedNonzero
          /\ ReportedText(ServiceError.text)
          /\ fetched = <<>>
          /\ saved = <<>>
          /\ files = InitialDisk

\* C12 witness: a text-to-video run whose submission failed has ended.
C12_Witness ==
    /\ cmd = "t2v"
    /\ Len(submitted) = 1
    /\ replies = <<"raise">>
    /\ exitCode = Some(1)
    /\ fetched = <<>>

-----------------------------------------------------------------------------
(* Properties of the operations on a missing file (SpecAll) and of a result *)
(* without URL (Spec)                                                       *)

\* The path names no file of the disk.
Missing(p) == ResolvePath(p) \notin DOMAIN InitialDisk

\* A run that got past the parser, the key check and the list-models mode.
GenerationRun ==
    /\ cmd \in {"image", "video", "t2v", "speech"}
    /\ ~args.help /\ ~args.list_models /\ ~UsageError /\ ~NoKey
    /\ pc \notin {"parse", "client", "main"}

\* C13: when the source image of image-to-video or the reference audio of speech
\* names no existing file, the library operation raises FileNotFoundError without
\* submitting; the command reports the missing file on stderr and ends with a
\* nonzero status; and in either case nothing is submitted, read, downloaded
\* or written.
C13_MissingFileFails ==
    LET untouched == /\ submitted = <<>> /\ fetched = <<>> /\ reads = <<>>
                     /\ saved = <<>> /\ files = InitialDisk
    IN  /\ (IsCall("generate_video") /\ Missing(call[1].a.image_path)) =>
              (ret.kind = "raise" /\ ret.exc = "FileNotFoundError" /\ untouched)
        /\ (/\ IsCall("text_to_speech") /\ TruthyStr(call[1].a.reference_audio)
            /\ Missing(call[1].a.reference_audio[1])) =>
              (ret.kind = "raise" /\ ret.exc = "FileNotFoundError" /\ untouched)
        /\ (GenerationRun /\ cmd = "video" /\ Missing(args.image[1])) =>
              (ExitedNonzero /\ OnStderr("Error: Image not found: ") /\ untouched)
        /\ (/\ GenerationRun /\ cmd = "speech" /\ TruthyStr(args.reference)
            /\ Missing(args.reference[1])) =>
              (ExitedNonzero /\ OnStderr("Error: Reference audio not found: ") /\ untouched)

\* C13 witness: the speech command given a reference audio that does not exist
\* has ended with status 1.
C13_Witness ==
    /\ cmd = "speech"
    /\ GenerationRun
    /\ args.reference = Some("missing.wav")
    /\ exitCode = Some(1)
    /\ submitted = <<>>

\* The entries of the returned image list that have no url.
ImagesWithoutUrl == {i \in 1..Len(result[1]) : "url" \notin DOMAIN result[1][i]}

\* C14 as claimed: when the result of a successful submission lacks the URL (an
\* image entry without url, no images at all, no url in the video or audio
\* result), the problem is reported on stderr, nothing is downloaded for that
\* result, and the run ends with a nonzero status.
C14_MissingUrlExitsNonzero ==
    /\ (cmd = "image" /\ pc = "exit" /\ result # None /\ ImagesWithoutUrl # {}) =>
          /\ OnStderr("Warning: Image has no URL")
          /\ Len(fetched) = Len(result[1]) - Cardinality(ImagesWithoutUrl)
          /\ ExitedNonzero
    /\ (/\ cmd \in {"image", "video", "t2v", "speech"} /\ pc = "exit"
        /\ replies = <<"return">> /\ result = None) =>
          /\ \E j \in 1..Len(out) : out[j].fd = "stderr"
          /\ fetched = <<>>
          /\ ExitedNonzero

-----------------------------------------------------------------------------
(* Properties of the commands: the open step (Spec) *)

\* Some viewer run of the open step failed.
ViewerFailed == \E i \in 1..Len(opened) : opened[i].outcome # "ok"

\* C15 as claimed: a failure of the open step (the viewer exits nonzero, or
\* cannot be started) prints no error and leaves the exit status and the saved
\* files as in the run without --open: every download that reached the open
\* step ends with status 0.
C15_OpenFailureIgnored ==
    (args.open /\ ViewerFailed) =>
        /\ ~OnStderr("Traceback (most recent call last)")
        /\ pc = "exit" => exitCode = Some(0)
        /\ NewFiles = {saved[i] : i \in 1..Len(saved)} \ DOMAIN InitialDisk

-----------------------------------------------------------------------------
(* Properties of the commands: cost estimates (SpecPrices) *)

\* The exit status of an ended run as a function of the command line, the
\* environment and what the service, the downloads and the viewer did; no price
\* and no estimate enters it.
StatusWithoutPrices ==
    IF args.help THEN 0
    ELSE IF UsageError THEN 2
    ELSE IF NoKey THEN 1
    ELSE IF args.list_models THEN 0
    ELSE IF cmd = "t2v" /\ ~TruthyStr(args.prompt) THEN 2
    ELSE IF replies # <<"return">> THEN 1
    ELSE IF result = None THEN 1
    ELSE IF cmd # "image" /\ fetched[Len(fetched)].http # "ok" THEN 1
    ELSE IF \E i \in 1..Len(opened) : opened[i].outcome = "notfound" THEN 1
    ELSE 0

\* The one submission of a generation run of the command line, from the payload
\* builders alone.
SubmissionOfArgs ==
    CASE cmd = "image" ->
            Submission(ImageModelId(args.model),
                       ImagePayload(args.prompt[1], args.aspect, args.num, args.seed, ~args.no_safety, args.negative))
      [] cmd = "video" ->
            Submission(VideoModelId(args.model),
                       VideoPayload(EncodeImage(InitialDisk, args.image[1]).value, args.prompt, args.duration, args.aspect))
      [] cmd = "t2v" ->
            Submission(TextToVideoModelId(args.model),
                       TextToVideoPayload(args.prompt[1], args.aspect, args.resolution, args.duration, args.seed))
      [] cmd = "speech" ->
            Submission(TtsModelId(args.model),
                       SpeechPayload(args.text[1],
                                     IF TruthyStr(args.reference)
                                     THEN Some(EncodeAudio(InitialDisk, args.reference[1]).value)
                                     ELSE None,
                                     args.voice, args.speed))

\* C16: with every price table (the model priced per second, per video, or
\* without an entry) the submission is the one the command line determines, a
\* download is attempted exactly when the submission returned a URL, the exit
\* status is the one the price-free outcomes determine, and a generation run
\* computes an estimate only after its download has succeeded: none between the
\* parsing and the submission.
C16_EstimatesAlterNothing ==
    /\ submitted # <<>> => submitted = <<SubmissionOfArgs>>
    /\ (pc = "exit" /\ cmd # "image") =>
          (fetched # <<>> <=> (replies = <<"return">> /\ result # None))
    /\ (pc = "exit" /\ cmd = "image" /\ replies = <<"return">> /\ result # None) =>
          Len(fetched) = Len(result[1]) - Cardinality(ImagesWithoutUrl)
    /\ (estimates # <<>> /\ ~args.list_models) =>
          /\ cmd = "t2v"
          /\ Len(estimates) = 1
          /\ Len(submitted) = 1
          /\ Len(fetched) = 1 /\ fetched[1].http = "ok"
    /\ (estimates # <<>> /\ args.list_models) => (cmd = "t2v" /\ submitted = <<>>)
    /\ pc = "exit" => exitCode = Some(StatusWithoutPrices)

\* C16 witness: a text-to-video run whose model has no entry in the price table
\* has submitted, downloaded, computed the (unavailable) estimate and ended with
\* status 0.
C16_Witness ==
    /\ cmd = "t2v"
    /\ args.model = "ltx-v2-fast"
    /\ priceTable = EmptyDict
    /\ Len(submitted) = 1
    /\ Len(fetched) = 1 /\ fetched[1].http = "ok"
    /\ estimates = <<EstimateCall("estimate_video_cost", "fal-ai/ltx-2/text-to-video/fast",
                                  RInt(5), None)>>
    /\ exitCode = Some(0)

-----------------------------------------------------------------------------
(* Properties of download_file (SpecLib) *)

\* The absolute form of the output paths of the model.
AbsoluteOf ==
    ("out/new.mp4" :> "/work/out/new.mp4") @@ ("old.mp4" :> "/work/old.mp4") @@
    ("~/clips/new.mp4" :> "/home/u/clips/new.mp4") @@ ("/tmp/x.mp4" :> "/tmp/x.mp4")

\* C17: download_file writes only after a GET with a success status: then the
\* file at the absolute output path holds the response body, every other file is
\* as before and the absolute path is returned; after a non-success status or a
\* transport error the call has raised and every file, one already at the output
\* path included, is as before.
C17_WriteOnlyAfterSuccess ==
    IsCall("download_file") =>
        LET a == call[1].a
            path == AbsoluteOf[a.output_path]
        IN  /\ Len(fetched) = 1 /\ fetched[1].url = a.url
            /\ IF fetched[1].http = "ok"
               THEN /\ ret = Return(path)
                    /\ DOMAIN files = DOMAIN InitialDisk \cup {path}
                    /\ files[path] = Body(a.url)
                    /\ \A f \in DOMAIN InitialDisk \ {path} : files[f] = InitialDisk[f]
               ELSE /\ ret.kind = "raise"
                    /\ files = InitialDisk

\* C17 witness: the download onto an existing file failed with an HTTP status
\* and the file still has its old content.
C17_Witness ==
    /\ IsCall("download_file")
    /\ call[1].a.output_path = "old.mp4"
    /\ fetched[1].http = "status"
    /\ ret.kind = "raise"
    /\ files["/work/old.mp4"] = "OLDDATA"

-----------------------------------------------------------------------------
(* Properties of the download loop of the image command (Spec) *)

\* The entries of the returned list that the loop has gone through.
Visited == 1..(IF pc = "download" THEN idx - 1 ELSE Len(result[1]))

\* The index of the list entry a download attempt is for.
EntryOf(k) == CHOOSE i \in 1..Len(result[1]) : DictGet(result[1][i], "url", "") = fetched[k].url

\* C18: in the image command the download attempts are exactly the visited
\* entries that have a URL, one attempt each, in list order, whether or not
\* earlier attempts failed; their target paths are pairwise distinct; and the
\* count of the summary is the number of attempts that succeeded.
C18_ImageDownloadLoop ==
    (cmd = "image" /\ result # None) =>
        LET images == result[1]
            ok == {k \in 1..Len(fetched) : fetched[k].http = "ok"}
        IN  /\ \A k \in 1..Len(fetched) :
                  \E i \in Visited : "url" \in DOMAIN images[i] /\ images[i].url = fetched[k].url
            /\ \A i \in Visited :
                  "url" \in DOMAIN images[i] =>
                      Cardinality({k \in 1..Len(fetched) : fetched[k].url = images[i].url}) = 1
            /\ \A k, l \in 1..Len(fetched) : k < l => EntryOf(k) < EntryOf(l)
            /\ \A k, l \in 1..Len(fetched) : k # l => fetched[k].path # fetched[l].path
            /\ Len(saved) = Cardinality(ok)
            /\ pc \in {"open", "exit"} =>
                  \E j \in 1..Len(out) :
                      /\ out[j].msg = "Generated image(s) in " \o ResolvePath(args.output)
                      /\ out[j].arg = ToString(Cardinality(ok))

\* C18 witness: of two returned images the first download failed and the
\* second succeeded; the run has ended with a summary of one image.
C18_Witness ==
    /\ cmd = "image" /\ pc = "exit"
    /\ result # None /\ Len(result[1]) = 2
    /\ Len(fetched) = 2
    /\ fetched[1].http # "ok" /\ fetched[2].http = "ok"
    /\ \E j \in 1..Len(out) : out[j].fd = "stdout" /\ out[j].arg = "1"
                                 /\ out[j].msg = "Generated image(s) in /work"

-----------------------------------------------------------------------------
(* Properties of the catalogs and the price table (SpecAll) *)

\* The remote identifiers of a catalog.
IdsOf(catalog) == {catalog[m] : m \in DOMAIN catalog}

\* The remote identifiers of the category an estimator is for.
CatalogIdsOf(fn) ==
    CASE fn = "estimate_image_cost" -> IdsOf(IMAGE_MODELS)
      [] fn = "estimate_video_cost" -> IdsOf(VIDEO_MODELS) \cup IdsOf(TEXT_TO_VIDEO_MODELS)
      [] fn = "estimate_tts_cost" -> IdsOf(TTS_MODELS)

\* C19: every remote identifier of the four catalogs has a PRICING entry whose
\* unit is one its category's estimator has a formula for; so the estimator of
\* the category, called with a catalog identifier, returns an estimate (not
\* None) computed by the formula of that unit, and every line of the
\* text-to-video listing has an estimate.
C19_CatalogsPriced ==
    /\ \A fn \in EstimatorFns : \A id \in CatalogIdsOf(fn) :
          id \in DOMAIN PRICING /\ PRICING[id].unit \in UnitsOf(fn)
    /\ (/\ call # None /\ call[1].fn \in EstimatorFns
        /\ call[1].a.model_id \in CatalogIdsOf(call[1].fn)) =>
          /\ ret.kind = "return" /\ ret.value # None
          /\ ret.value[1].unit \in UnitsOf(call[1].fn)
          /\ ret.value[1].cost = FormulaCost(ret.value[1].unit,
                                             PRICING[call[1].a.model_id].unit_price, call[1].a)
    /\ \A i \in 1..Len(estimates) :
          estimates[i].model_id \in IdsOf(TEXT_TO_VIDEO_MODELS) => estimates[i].value # None

\* C19 witness: the image-to-video catalog entry priced per compute second,
\* estimated for ten seconds: 10 x 0.00125.
C19_Witness ==
    /\ IsCall("estimate_video_cost")
    /\ call[1].a.model_id = VIDEO_MODELS["hunyuan"]
    /\ call[1].a.duration_seconds = RInt(10)
    /\ ret.value = Some([cost |-> Rat(1, 80), unit |-> "compute seconds"])

-----------------------------------------------------------------------------
(* Properties of the list-models mode (Spec) *)

\* A run with --list-models that the parser accepts, with an API key.
ListModelsRun == args.list_models /\ ~UsageError /\ ~NoKey

\* C20: a run in list-models mode with an API key submits nothing, reads no
\* reference file, downloads and writes nothing and starts no viewer, whatever
\* the other arguments are (a source image that does not exist, a missing
\* prompt of the text-to-video command, --open), and ends with status 0.
C20_ListModelsOnlyLists ==
    ListModelsRun =>
        /\ submitted = <<>> /\ replies = <<>>
        /\ reads = <<>>
        /\ fetched = <<>> /\ saved = <<>> /\ files = InitialDisk
        /\ opened = <<>>
        /\ pc = "exit" => exitCode = Some(0)

\* C20 witness: the image-to-video command listed its models although its
\* source image does not exist.
C20_Witness ==
    /\ cmd = "video"
    /\ ListModelsRun /\ ~args.help
    /\ args.image = Some("missing.png")
    /\ exitCode = Some(0)
    /\ \E j \in 1..Len(out) : out[j] = Emit("stdout", "kling", VIDEO_MODELS["kling"])

====
